---------------------------- MODULE Spec2Model ----------------------------
(***************************************************************************)
(* State-machine model of the SHE command server of wolfHSM                *)
(* (src/wh_server_she.c).  One action per SHE command; every action is the *)
(* whole of wh_Server_HandleSheRequest for that command: the gate, the     *)
(* handler, the error coercion and the secure-boot reset.                  *)
(*                                                                         *)
(* AES, CMAC and the Miyaguchi-Preneel KDF are symbolic: a result is the   *)
(* term built from its inputs, so two results are equal exactly when they  *)
(* were computed from equal inputs.  32-bit words are pairs <<hi, lo>> of  *)
(* 16-bit halves, so that unsigned wrap-around and byte order are kept.    *)
(***************************************************************************)
EXTENDS Integers, Sequences, FiniteSets, TLC

VARIABLES
    she,          \* server->she: the session fields
    sheCmac,      \* server->she->sheCmac: the session CMAC object
    sheAes,       \* server->she->sheAes: the session AES object
    nvm,          \* server->nvm: SHE key objects by slot number
    cache,        \* the key cache entry of the RAM key slot
    packet,       \* the request/reply buffer of the last dispatch
    littleEndian, \* byte order of the host the server was built for
    wire          \* the M1..M5 of an exported RAM key the host has kept

vars == <<she, sheCmac, sheAes, nvm, cache, packet, littleEndian, wire>>

----------------------------------------------------------------------------
(* Bounds of the model *)

\* largest bootloader size a host announces with SB_INIT
MaxBlSize == 2
\* longest bootloader chunk carried by one SB_UPDATE
MaxChunk == 1
\* number of RND / EXTEND_SEED rotations of the PRNG state that are followed
MaxRnd == 1
\* most whole AES blocks in the payload of one ECB / CBC request
MaxAesBlocks == 2

----------------------------------------------------------------------------
(* 32-bit unsigned words *)

W16 == 65536
W8 == 256

Word(n) == <<n \div W16, n % W16>>
Zero32 == <<0, 0>>

\* a + b modulo 2^32
Add32(a, b) ==
    LET lo == a[2] + b[2]
        hi == a[1] + b[1] + (lo \div W16)
    IN  <<hi % W16, lo % W16>>

Gt32(a, b) == a[1] > b[1] \/ (a[1] = b[1] /\ a[2] > b[2])
Le32(a, b) == ~Gt32(a, b)

\* x >> 4
Shr4(a) == <<a[1] \div 16, ((a[1] % 16) * 4096) + (a[2] \div 16)>>
\* x << 4 modulo 2^32
Shl4(a) == <<((a[1] % 4096) * 16) + (a[2] \div 4096), (a[2] % 4096) * 16>>

\* the four bytes of a word, most significant first
BytesOf(a) == <<a[1] \div W8, a[1] % W8, a[2] \div W8, a[2] % W8>>
FromBytes(b) == <<(b[1] * W8) + b[2], (b[3] * W8) + b[4]>>
Reverse4(b) == <<b[4], b[3], b[2], b[1]>>

\* the word the host reads from four bytes in memory order
LoadWord(b, le) == IF le THEN FromBytes(Reverse4(b)) ELSE FromBytes(b)
\* the four bytes, in memory order, the host writes for a word
StoreWord(a, le) == IF le THEN Reverse4(BytesOf(a)) ELSE BytesOf(a)


\* wh_Utils_ntohl / wh_Utils_htonl: identity on a big-endian host, byte swap
\* on a little-endian one
wh_Utils_ntohl(a, le) == IF le THEN FromBytes(Reverse4(BytesOf(a))) ELSE a

----------------------------------------------------------------------------
(* SHE constants (wolfhsm/wh_she_common.h) *)

WOLFHSM_SHE_SECRET_KEY_ID == 0
WOLFHSM_SHE_MASTER_ECU_KEY_ID == 1
WOLFHSM_SHE_BOOT_MAC_KEY_ID == 2
WOLFHSM_SHE_BOOT_MAC == 3
WOLFHSM_SHE_KEY_1_ID == 4
WOLFHSM_SHE_RAM_KEY_ID == 14
WOLFHSM_SHE_PRNG_SEED_ID == 15

WOLFHSM_SHE_FLAG_WRITE_PROTECT == 1
WOLFHSM_SHE_FLAG_WILDCARD == 16

WOLFHSM_SHE_SREG_SECURE_BOOT == 2
WOLFHSM_SHE_SREG_BOOT_FINISHED == 8
WOLFHSM_SHE_SREG_BOOT_OK == 16
WOLFHSM_SHE_SREG_RND_INIT == 32

\* enum WOLFHSM_SHE_SB_STATE
SbStates == {"SB_INIT", "SB_UPDATE", "SB_FINISH", "SB_SUCCESS", "SB_FAILURE"}

\* the SHE error codes the dispatcher passes through unchanged
SheErcPassed ==
    {"SEQUENCE_ERROR", "KEY_NOT_AVAILABLE", "KEY_INVALID", "KEY_EMPTY",
     "NO_SECURE_BOOT", "WRITE_PROTECTED", "KEY_UPDATE_ERROR", "RNG_SEED",
     "NO_DEBUGGING", "BUSY", "MEMORY_FAILURE"}

\* the action codes of the SHE group, and one code that is none of them
SbActions == {"SECURE_BOOT_INIT", "SECURE_BOOT_UPDATE", "SECURE_BOOT_FINISH"}
PreBootActions == SbActions \cup {"GET_STATUS", "SET_UID"}
SheActions ==
    PreBootActions \cup
    {"LOAD_KEY", "LOAD_PLAIN_KEY", "EXPORT_RAM_KEY", "INIT_RND", "RND",
     "EXTEND_SEED", "ENC_ECB", "ENC_CBC", "DEC_ECB", "DEC_CBC", "GEN_MAC",
     "VERIFY_MAC"}
AllActions == SheActions \cup {"UNKNOWN"}

\* does the flag word contain the flag bit?
HasFlag(flags, bit) == (flags \div bit) % 2 = 1

----------------------------------------------------------------------------
(* Symbolic cryptography *)

Key(n) == [t |-> "raw", n |-> n]
ZeroBlock == [t |-> "zero"]
KdfConst(n) == [t |-> "const", n |-> n]
WOLFHSM_SHE_KEY_UPDATE_ENC_C == KdfConst("KEY_UPDATE_ENC_C")
WOLFHSM_SHE_KEY_UPDATE_MAC_C == KdfConst("KEY_UPDATE_MAC_C")
WOLFHSM_SHE_PRNG_KEY_C == KdfConst("PRNG_KEY_C")
WOLFHSM_SHE_PRNG_SEED_KEY_C == KdfConst("PRNG_SEED_KEY_C")

\* one Miyaguchi-Preneel step: AES(key = h, m) xor m xor h
MpStep(h, m) == [t |-> "mp", h |-> h, m |-> m]

\* wh_AesMp16 over a sequence of 16-byte blocks, chained from the zero block
RECURSIVE MpFold(_, _)
MpFold(h, in) == IF in = <<>> THEN h ELSE MpFold(MpStep(h, Head(in)), Tail(in))
wh_AesMp16(in) == MpFold(ZeroBlock, in)

\* CMAC of a message under a key; kind names the layout of the message
Cmac(kind, k, m) == [t |-> kind, k |-> k, m |-> m]

\* equality of two 16-byte values (XMEMCMP(...) == 0)
SameBytes(a, b) == a.t = b.t /\ a = b

----------------------------------------------------------------------------
(* Key store interface (wolfhsm/wh_server_keystore.h, wh_nvm.h) *)

NoObj == [present |-> FALSE]
Obj(key, flags, count) ==
    [present |-> TRUE, key |-> key, flags |-> flags, count |-> count]

Slots == 0 .. 15

\* the object a read of the slot finds: the cache entry for the RAM key,
\* the NVM object otherwise
StoredObj(n, c, slot) ==
    IF slot = WOLFHSM_SHE_RAM_KEY_ID /\ c.present THEN c ELSE n[slot]

\* hsmReadKey: 0 with the object, WH_ERROR_NOTFOUND for an empty slot, or
\* another error when the store itself fails (ioFail)
hsmReadKey(n, c, slot, ioFail) ==
    IF ioFail THEN [ret |-> "WH_ERROR_ABORTED", obj |-> NoObj]
    ELSE IF StoredObj(n, c, slot).present
         THEN [ret |-> "NO_ERROR", obj |-> StoredObj(n, c, slot)]
         ELSE [ret |-> "WH_ERROR_NOTFOUND", obj |-> NoObj]


----------------------------------------------------------------------------
(* Inputs *)

\* 15-byte UIDs; ZeroUid is the all-zero UID
ZeroUid == "uid0"
Uids == {ZeroUid, "uid1", "uid2"}

\* raw key values
KeyNames == {"kA", "kB"}

\* bytes of a bootloader image
ImageBytes == {"x", "y"}
\* what the CMAC has read once an SB_UPDATE length ran past the packet buffer
OutOfBuffer == <<"oob">>

RECURSIVE SeqsUpTo(_, _)
SeqsUpTo(S, n) ==
    IF n = 0 THEN {<<>>}
    ELSE SeqsUpTo(S, n - 1) \cup
         {Append(q, x) : q \in {r \in SeqsUpTo(S, n - 1) : Len(r) = n - 1}, x \in S}

\* the image the provisioned BOOT_MAC was computed over
RefImage == <<"x", "y">>

\* SB_UPDATE requests: a chunk with its true length, or a length field that
\* the chunk in the packet does not back
OverlongReq == [sz |-> <<W16 - 1, W16 - 1>>, data |-> OutOfBuffer]
UpdateReqs ==
    {[sz |-> Word(Len(d)), data |-> d] : d \in SeqsUpTo(ImageBytes, MaxChunk)}
    \cup {OverlongReq}

\* the data the secure-boot CMAC has absorbed: 12 zero bytes, the four bytes
\* of blSize as they lie in memory, then the image bytes
SbMessage(sizeBytes, image) == [size |-> sizeBytes, image |-> image]
BootMacOf(k, size, image, le) ==
    Cmac("cmac_sb", k, SbMessage(StoreWord(size, le), image))

----------------------------------------------------------------------------
(* State after construction *)

InitShe ==
    [uidSet |-> FALSE, uid |-> ZeroUid, sbState |-> "SB_INIT",
     blSize |-> Zero32, blSizeReceived |-> Zero32, cmacKeyFound |-> FALSE,
     rndInited |-> FALSE, prngState |-> ZeroBlock, prngKey |-> ZeroBlock,
     ramKeyPlain |-> FALSE]

NoCmac == [live |-> FALSE, key |-> ZeroBlock, msg |-> SbMessage(<<>>, <<>>)]
NoRes == [t |-> "none"]
NoReq == [t |-> "none"]

\* the provisioning of the key store the server starts with
Config(bk, bm, sk, k) ==
    [bootKey |-> bk, bootMac |-> bm, secret |-> sk, slot4 |-> k]
\* stores with and without the secure-boot keys
BootConfigs == {Config(bk, bm, TRUE, NoObj) : bk \in BOOLEAN, bm \in BOOLEAN}
\* stores without the secure-boot keys; slot 4 empty or write-protected
KeyConfigs ==
    {Config(FALSE, FALSE, sk, k)
        : sk \in BOOLEAN,
          k \in {NoObj, Obj(Key("kB"), WOLFHSM_SHE_FLAG_WRITE_PROTECT, Zero32)}}

ProvisionedNvm(cfg, le) ==
    [s \in Slots |->
        CASE s = WOLFHSM_SHE_SECRET_KEY_ID ->
                IF cfg.secret THEN Obj(Key("kS"), 0, Zero32) ELSE NoObj
          [] s = WOLFHSM_SHE_MASTER_ECU_KEY_ID -> Obj(Key("kA"), 0, Zero32)
          [] s = WOLFHSM_SHE_BOOT_MAC_KEY_ID ->
                IF cfg.bootKey THEN Obj(Key("kM"), 0, Zero32) ELSE NoObj
          [] s = WOLFHSM_SHE_BOOT_MAC ->
                IF cfg.bootMac
                THEN Obj(BootMacOf(Key("kM"), Word(Len(RefImage)), RefImage, le),
                         0, Zero32)
                ELSE NoObj
          [] s = WOLFHSM_SHE_KEY_1_ID -> cfg.slot4
          [] s = WOLFHSM_SHE_PRNG_SEED_ID ->
                IF cfg.secret THEN Obj(Key("seed"), 0, Zero32) ELSE NoObj
          [] OTHER -> NoObj]

\* the packet buffer while no reply is waiting to be sent; ret is what the
\* last call of the dispatcher returned, aes how the handler released the
\* session AES object ("none" when it made no wc_AesFree call)
NoPacket ==
    [action |-> "NONE", req |-> NoReq, fault |-> "none", handled |-> FALSE,
     rc |-> "NO_ERROR", size |-> "none", res |-> NoRes, ret |-> "WH_ERROR_OK",
     aes |-> "none"]

Startup(Configs) ==
    /\ littleEndian \in BOOLEAN
    /\ she = InitShe
    /\ sheCmac = NoCmac
    /\ sheAes = [inited |-> FALSE]
    /\ \E cfg \in Configs : nvm = ProvisionedNvm(cfg, littleEndian)
    /\ cache = NoObj
    /\ packet = NoPacket
    /\ wire = NoRes

Init == Startup(BootConfigs)
InitKey == Startup(KeyConfigs)


----------------------------------------------------------------------------
(* Handlers.  Each yields the value it returns and the state it leaves. *)

\* the session AES object after the last wc_AesFree of a handler: "scoped"
\* when every wc_AesFree of the invocation released an object initialised
\* since the previous one, "again" when one ran on an object the invocation
\* had initialised and released already, "idle" when one ran with no
\* wc_AesInit in the invocation at all
AesFreed(how) == [inited |-> FALSE, freed |-> how]

Out(ret, s, cm, ae, n, c, res) ==
    [ret |-> ret, she |-> s, cmac |-> cm, aes |-> ae, nvm |-> n, cache |-> c,
     res |-> res]

\* a handler that returns ret and touches nothing
Untouched(ret) == Out(ret, she, sheCmac, sheAes, nvm, cache, NoRes)

\* a SET_UID that stores the UID whether or not one is set already
hsmSheSetUidAgain(uid) ==
    Out("NO_ERROR", [she EXCEPT !.uid = uid, !.uidSet = TRUE],
        sheCmac, sheAes, nvm, cache, NoRes)

hsmSheSetUid(uid) ==
    IF she.uidSet
    THEN Untouched("SEQUENCE_ERROR")
    ELSE Out("NO_ERROR", [she EXCEPT !.uid = uid, !.uidSet = TRUE],
             sheCmac, sheAes, nvm, cache, NoRes)

hsmSheSecureBootInit(sz, fault) ==
    IF she.sbState # "SB_INIT"
    THEN Untouched("SEQUENCE_ERROR")
    ELSE
      LET s1 == [she EXCEPT !.blSize = sz]
          rd == hsmReadKey(nvm, cache, WOLFHSM_SHE_BOOT_MAC_KEY_ID, fault = "read")
          s2 == [s1 EXCEPT !.cmacKeyFound = TRUE]
          opened == [live |-> TRUE, key |-> rd.obj.key,
                     msg |-> SbMessage(<<>>, <<>>)]
          hashed == [opened EXCEPT
                        !.msg = SbMessage(StoreWord(sz, littleEndian), <<>>)]
      IN  IF rd.ret # "NO_ERROR"
          THEN Out("NO_SECURE_BOOT",
                   [s1 EXCEPT !.sbState = "SB_SUCCESS", !.cmacKeyFound = FALSE],
                   sheCmac, sheAes, nvm, cache, NoRes)
          ELSE IF fault = "cmacInit"
          THEN Out("CRYPTO_ERROR", s2, sheCmac, sheAes, nvm, cache, NoRes)
          ELSE IF fault = "cmacUpdate"
          THEN Out("CRYPTO_ERROR", s2, opened, sheAes, nvm, cache, NoRes)
          ELSE Out("NO_ERROR", [s2 EXCEPT !.sbState = "SB_UPDATE"], hashed,
                   sheAes, nvm, cache, [t |-> "status", status |-> "NO_ERROR"])

\* the image bytes the CMAC has absorbed after one more wc_CmacUpdate
Absorb(image, data) ==
    IF image = OutOfBuffer \/ data = OutOfBuffer THEN OutOfBuffer
    ELSE image \o data

\* wc_CmacUpdate reading sz bytes from a packet that holds fewer reads past
\* the buffer: it either runs through whatever lies there or the read faults
\* and the server stops
ServerFault == "SERVER_FAULT"

\* the overrun test of SB_UPDATE, on the counter already incremented
BlExceeded(received, size) == Gt32(received, size)

hsmSheSecureBootUpdate(req, fault) ==
    IF she.sbState # "SB_UPDATE"
    THEN Untouched("SEQUENCE_ERROR")
    ELSE
      LET received == Add32(she.blSizeReceived, req.sz)
          s1 == [she EXCEPT !.blSizeReceived = received]
          fed == [sheCmac EXCEPT !.msg.image = Absorb(@, req.data)]
      IN  IF BlExceeded(received, she.blSize)
          THEN Out("SEQUENCE_ERROR", s1, sheCmac, sheAes, nvm, cache, NoRes)
          ELSE IF fault = "segv" /\ req.data = OutOfBuffer
          THEN Out(ServerFault, s1, sheCmac, sheAes, nvm, cache, NoRes)
          ELSE IF fault = "cmacUpdate"
          THEN Out("CRYPTO_ERROR", s1, sheCmac, sheAes, nvm, cache, NoRes)
          ELSE Out("NO_ERROR",
                   IF received = she.blSize
                   THEN [s1 EXCEPT !.sbState = "SB_FINISH"] ELSE s1,
                   fed, sheAes, nvm, cache,
                   [t |-> "status", status |-> "NO_ERROR"])

\* an SB_FINISH that is accepted while updates are still awaited
hsmSheSecureBootFinishEarly(fault) ==
    IF she.sbState \notin {"SB_UPDATE", "SB_FINISH"}
    THEN Untouched("SEQUENCE_ERROR")
    ELSE IF fault = "cmacFinal"
    THEN Untouched("CRYPTO_ERROR")
    ELSE
      LET cmacOutput == Cmac("cmac_sb", sheCmac.key, sheCmac.msg)
          done == [sheCmac EXCEPT !.live = FALSE]
          rd == hsmReadKey(nvm, cache, WOLFHSM_SHE_BOOT_MAC, fault = "read")
      IN  IF rd.ret # "NO_ERROR"
          THEN Out("KEY_NOT_AVAILABLE", she, done, sheAes, nvm, cache, NoRes)
          ELSE IF SameBytes(cmacOutput, rd.obj.key)
          THEN Out("NO_ERROR", [she EXCEPT !.sbState = "SB_SUCCESS"], done,
                   sheAes, nvm, cache, [t |-> "status", status |-> "NO_ERROR"])
          ELSE Out("GENERAL_ERROR", [she EXCEPT !.sbState = "SB_FAILURE"], done,
                   sheAes, nvm, cache, NoRes)

hsmSheSecureBootFinish(fault) ==
    IF she.sbState # "SB_FINISH"
    THEN Untouched("SEQUENCE_ERROR")
    ELSE IF fault = "cmacFinal"
    THEN Untouched("CRYPTO_ERROR")
    ELSE
      LET cmacOutput == Cmac("cmac_sb", sheCmac.key, sheCmac.msg)
          done == [sheCmac EXCEPT !.live = FALSE]
          rd == hsmReadKey(nvm, cache, WOLFHSM_SHE_BOOT_MAC, fault = "read")
      IN  IF rd.ret # "NO_ERROR"
          THEN Out("KEY_NOT_AVAILABLE", she, done, sheAes, nvm, cache, NoRes)
          ELSE IF SameBytes(cmacOutput, rd.obj.key)
          THEN Out("NO_ERROR", [she EXCEPT !.sbState = "SB_SUCCESS"], done,
                   sheAes, nvm, cache, [t |-> "status", status |-> "NO_ERROR"])
          ELSE Out("GENERAL_ERROR", [she EXCEPT !.sbState = "SB_FAILURE"], done,
                   sheAes, nvm, cache, NoRes)

\* an SREG byte that reports the boot as finished only when it succeeded
\* and never reports the PRNG
SregBootOnly(s) ==
    (IF s.cmacKeyFound THEN WOLFHSM_SHE_SREG_SECURE_BOOT ELSE 0)
    + (IF s.sbState = "SB_SUCCESS"
       THEN WOLFHSM_SHE_SREG_BOOT_FINISHED + WOLFHSM_SHE_SREG_BOOT_OK ELSE 0)

\* the SREG byte of GET_STATUS
Sreg(s) ==
    (IF s.cmacKeyFound THEN WOLFHSM_SHE_SREG_SECURE_BOOT ELSE 0)
    + (IF s.sbState \in {"SB_SUCCESS", "SB_FAILURE"}
       THEN WOLFHSM_SHE_SREG_BOOT_FINISHED ELSE 0)
    + (IF s.sbState = "SB_SUCCESS" THEN WOLFHSM_SHE_SREG_BOOT_OK ELSE 0)
    + (IF s.rndInited THEN WOLFHSM_SHE_SREG_RND_INIT ELSE 0)

hsmSheGetStatus ==
    Out("NO_ERROR", she, sheCmac, sheAes, nvm, cache,
        [t |-> "sreg", sreg |-> Sreg(she)])


----------------------------------------------------------------------------
(* LOAD_KEY *)

\* AES-CBC with a zero IV over M2 (two blocks), and AES-ECB over one block
AesCbcEncrypt(k, pt) == [t |-> "cbc", k |-> k, pt |-> pt]
Scrambled(k, ct) ==
    [w |-> <<255, 255, 255, 255>>, b4 |-> 255,
     key |-> [t |-> "scrambled", k |-> k, ct |-> ct]]
AesCbcDecrypt(k, ct) == IF ct.k = k THEN ct.pt ELSE Scrambled(k, ct)
AesEncryptDirect(k, block) == [t |-> "ecb", k |-> k, p |-> block]

\* the cleartext of M2: w are its bytes 0..3 (28-bit counter, then the high
\* four flag bits), b4 is byte 4 (its top bit is the last flag bit), key are
\* bytes 16..31
M2Plain(counter, flagNibble, b4, key) ==
    [w |-> BytesOf(Word((counter * 16) + flagNibble)), b4 |-> b4, key |-> key]

\* the counter of M2 as SHE defines it: the big-endian integer in the top 28
\* bits of bytes 0..3
M2Counter(pt) == Shr4(FromBytes(pt.w))

\* hsmShePopFlags
hsmShePopFlags(pt) == ((pt.w[4] % 16) * 16) + (pt.b4 \div 128)

\* *counter >> 4 on the word the host reads at the start of M2
HostCounter(pt, le) == Shr4(LoadWord(pt.w, le))

\* the rollback test: is the presented counter rejected against the stored one?
CounterRejected(presented, stored, le) ==
    Le32(wh_Utils_ntohl(presented, le), wh_Utils_ntohl(stored, le))

\* a protection test that looks at the WILDCARD bit
WriteProtectedByWildcard(ret, flags) ==
    ~(ret = "WH_ERROR_NOTFOUND" \/ ~HasFlag(flags, WOLFHSM_SHE_FLAG_WILDCARD))

\* the write-protection test on the result of reading the target slot
WriteProtected(ret, flags) ==
    ~(ret = "WH_ERROR_NOTFOUND" \/ ~HasFlag(flags, WOLFHSM_SHE_FLAG_WRITE_PROTECT))

\* a UID test that lets the all-zero UID through without the WILDCARD flag
UidRejectedUnlessZero(m1uid, uid, flags) == m1uid # ZeroUid /\ m1uid # uid

\* the UID test of M1 against the session UID and the target's flags
UidRejected(m1uid, uid, flags) ==
    IF m1uid = ZeroUid
    THEN ~HasFlag(flags, WOLFHSM_SHE_FLAG_WILDCARD)
    ELSE m1uid # uid

\* bytes 0..15 of M2 after the counter was rewritten from the stored count and
\* the padding bit set; bytes 4..15 keep what the decryption left there
M4Block(count, pt, le) ==
    LET b == StoreWord(Shl4(count), le)
        b3 == IF (b[4] \div 8) % 2 = 1 THEN b[4] ELSE b[4] + 8
    IN  [w |-> <<b[1], b[2], b[3], b3>>, b4 |-> pt.b4]

\* an M3 comparison that lets every request through
M3RejectedNever(m3, cmacOutput) == FALSE

\* the comparison of the CMAC just computed with M3
M3Rejected(m3, cmacOutput) == ~SameBytes(m3, cmacOutput)

K1Of(auth) == wh_AesMp16(<<auth, WOLFHSM_SHE_KEY_UPDATE_ENC_C>>)
K2Of(auth) == wh_AesMp16(<<auth, WOLFHSM_SHE_KEY_UPDATE_MAC_C>>)

hsmSheLoadKey(req, fault) ==
    LET id == req.m1.id
        authId == req.m1.authId
        freed == AesFreed("scoped")
        again == AesFreed("again")
        idle == AesFreed("idle")
        used == [sheCmac EXCEPT !.live = FALSE]
        Early(ret, ae) == Out(ret, she, sheCmac, ae, nvm, cache, NoRes)
        Fail(ret) == Out(ret, she, used, again, nvm, cache, NoRes)
        auth == hsmReadKey(nvm, cache, authId, fault = "readAuth")
        k2 == K2Of(auth.obj.key)
        cmacOutput == Cmac("cmac_lk", k2, [m1 |-> req.m1, m2 |-> req.m2])
        k1 == K1Of(auth.obj.key)
        pt == AesCbcDecrypt(k1, req.m2)
        target == hsmReadKey(nvm, cache, id, fault = "readTarget")
        flags0 == IF target.ret = "NO_ERROR" THEN target.obj.flags ELSE 0
        count0 == IF target.ret = "NO_ERROR" THEN target.obj.count ELSE Zero32
        keyRet == target.ret
        newObj == Obj(pt.key, hsmShePopFlags(pt), HostCounter(pt, littleEndian))
        isRam == id = WOLFHSM_SHE_RAM_KEY_ID
        nvm1 == IF isRam THEN nvm ELSE [nvm EXCEPT ![id] = newObj]
        cache1 == IF isRam THEN newObj ELSE cache
        back == IF isRam THEN newObj ELSE nvm1[id]
        k3 == wh_AesMp16(<<back.key, WOLFHSM_SHE_KEY_UPDATE_ENC_C>>)
        k4 == wh_AesMp16(<<back.key, WOLFHSM_SHE_KEY_UPDATE_MAC_C>>)
        m4 == [uid |-> she.uid, id |-> id, authId |-> authId,
               enc |-> AesEncryptDirect(k3, M4Block(back.count, pt, littleEndian))]
        m5 == Cmac("cmac_m4", k4, m4)
    IN  IF auth.ret # "NO_ERROR" THEN Early("KEY_NOT_AVAILABLE", idle)
        ELSE IF fault = "kdfK2" THEN Early("CRYPTO_ERROR", again)
        ELSE IF M3Rejected(req.m3, cmacOutput) THEN Fail("KEY_UPDATE_ERROR")
        ELSE IF WriteProtected(target.ret, flags0) THEN Fail("WRITE_PROTECTED")
        ELSE IF UidRejected(req.m1.uid, she.uid, flags0)
        THEN Fail("KEY_UPDATE_ERROR")
        ELSE IF keyRet # "WH_ERROR_NOTFOUND"
                /\ CounterRejected(HostCounter(pt, littleEndian), count0,
                                   littleEndian)
        THEN Fail("KEY_UPDATE_ERROR")
        ELSE IF fault = "write" THEN Fail("KEY_UPDATE_ERROR")
        ELSE IF fault = "reread" /\ ~isRam
        THEN Out("KEY_UPDATE_ERROR", she, used, again, nvm1, cache1, NoRes)
        ELSE IF fault = "kdfK3"
        THEN Out("CRYPTO_ERROR", she, used, again, nvm1, cache1, NoRes)
        ELSE Out("NO_ERROR",
                 IF isRam THEN [she EXCEPT !.ramKeyPlain = TRUE] ELSE she,
                 used, freed, nvm1, cache1,
                 [t |-> "m45", m4 |-> m4, m5 |-> m5])


----------------------------------------------------------------------------
(* LOAD_PLAIN_KEY and EXPORT_RAM_KEY *)

\* a LOAD_PLAIN_KEY that caches the key and leaves ramKeyPlain alone
hsmSheLoadPlainKeyUnmarked(key, fault) ==
    IF fault = "write"
    THEN Untouched("WH_ERROR_ABORTED")
    ELSE Out("NO_ERROR", she, sheCmac, sheAes, nvm, Obj(key, 0, Zero32), NoRes)

hsmSheLoadPlainKey(key, fault) ==
    IF fault = "write"
    THEN Untouched("WH_ERROR_ABORTED")
    ELSE Out("NO_ERROR", [she EXCEPT !.ramKeyPlain = TRUE], sheCmac, sheAes,
             nvm, Obj(key, 0, Zero32), NoRes)

\* the bytes of htonl(1), not shifted past the flag bits
ExportCounterUnshifted(le) == StoreWord(wh_Utils_ntohl(Word(1), le), le)

\* the four bytes the host writes for (htonl(1) << 4)
ExportCounterBytes(le) == StoreWord(Shl4(wh_Utils_ntohl(Word(1), le)), le)

\* an EXPORT_RAM_KEY that does not look at ramKeyPlain
hsmSheExportRamKeyUntested(fault) ==
    LET freed == AesFreed("scoped")
        again == AesFreed("again")
        idle == AesFreed("idle")
        used == [sheCmac EXCEPT !.live = FALSE]
        secret == hsmReadKey(nvm, cache, WOLFHSM_SHE_SECRET_KEY_ID,
                             fault = "readAuth")
        ram == hsmReadKey(nvm, cache, WOLFHSM_SHE_RAM_KEY_ID,
                          fault = "readTarget")
        m1 == [uid |-> she.uid, id |-> WOLFHSM_SHE_RAM_KEY_ID,
               authId |-> WOLFHSM_SHE_SECRET_KEY_ID]
        cb == ExportCounterBytes(littleEndian)
        pt == [w |-> cb, b4 |-> 0, key |-> ram.obj.key]
        m2 == AesCbcEncrypt(K1Of(secret.obj.key), pt)
        m3 == Cmac("cmac_lk", K2Of(secret.obj.key), [m1 |-> m1, m2 |-> m2])
        k3 == wh_AesMp16(<<ram.obj.key, WOLFHSM_SHE_KEY_UPDATE_ENC_C>>)
        k4 == wh_AesMp16(<<ram.obj.key, WOLFHSM_SHE_KEY_UPDATE_MAC_C>>)
        block == [w |-> <<cb[1], cb[2], cb[3],
                         IF (cb[4] \div 8) % 2 = 1 THEN cb[4] ELSE cb[4] + 8>>,
                  b4 |-> 0]
        m4 == [uid |-> she.uid, id |-> WOLFHSM_SHE_RAM_KEY_ID,
               authId |-> WOLFHSM_SHE_SECRET_KEY_ID,
               enc |-> AesEncryptDirect(k3, block)]
        m5 == Cmac("cmac_m4", k4, m4)
    IN  IF secret.ret # "NO_ERROR"
        THEN Out("KEY_NOT_AVAILABLE", she, sheCmac, idle, nvm, cache, NoRes)
        ELSE IF fault = "kdfK2"
        THEN Out("CRYPTO_ERROR", she, sheCmac, again, nvm, cache, NoRes)
        ELSE IF ram.ret # "NO_ERROR"
        THEN Out("KEY_NOT_AVAILABLE", she, sheCmac, again, nvm, cache, NoRes)
        ELSE IF fault = "kdfK3"
        THEN Out("CRYPTO_ERROR", she, used, again, nvm, cache, NoRes)
        ELSE Out("NO_ERROR", she, used, freed, nvm, cache,
                 [t |-> "m15", m1 |-> m1, m2 |-> m2, m3 |-> m3, m4 |-> m4,
                  m5 |-> m5])

hsmSheExportRamKey(fault) ==
    LET freed == AesFreed("scoped")
        again == AesFreed("again")
        idle == AesFreed("idle")
        used == [sheCmac EXCEPT !.live = FALSE]
        secret == hsmReadKey(nvm, cache, WOLFHSM_SHE_SECRET_KEY_ID,
                             fault = "readAuth")
        ram == hsmReadKey(nvm, cache, WOLFHSM_SHE_RAM_KEY_ID,
                          fault = "readTarget")
        m1 == [uid |-> she.uid, id |-> WOLFHSM_SHE_RAM_KEY_ID,
               authId |-> WOLFHSM_SHE_SECRET_KEY_ID]
        cb == ExportCounterBytes(littleEndian)
        pt == [w |-> cb, b4 |-> 0, key |-> ram.obj.key]
        m2 == AesCbcEncrypt(K1Of(secret.obj.key), pt)
        m3 == Cmac("cmac_lk", K2Of(secret.obj.key), [m1 |-> m1, m2 |-> m2])
        k3 == wh_AesMp16(<<ram.obj.key, WOLFHSM_SHE_KEY_UPDATE_ENC_C>>)
        k4 == wh_AesMp16(<<ram.obj.key, WOLFHSM_SHE_KEY_UPDATE_MAC_C>>)
        block == [w |-> <<cb[1], cb[2], cb[3],
                         IF (cb[4] \div 8) % 2 = 1 THEN cb[4] ELSE cb[4] + 8>>,
                  b4 |-> 0]
        m4 == [uid |-> she.uid, id |-> WOLFHSM_SHE_RAM_KEY_ID,
               authId |-> WOLFHSM_SHE_SECRET_KEY_ID,
               enc |-> AesEncryptDirect(k3, block)]
        m5 == Cmac("cmac_m4", k4, m4)
    IN  IF ~she.ramKeyPlain
        THEN Out("KEY_INVALID", she, sheCmac, idle, nvm, cache, NoRes)
        ELSE IF secret.ret # "NO_ERROR"
        THEN Out("KEY_NOT_AVAILABLE", she, sheCmac, idle, nvm, cache, NoRes)
        ELSE IF fault = "kdfK2"
        THEN Out("CRYPTO_ERROR", she, sheCmac, again, nvm, cache, NoRes)
        ELSE IF ram.ret # "NO_ERROR"
        THEN Out("KEY_NOT_AVAILABLE", she, sheCmac, again, nvm, cache, NoRes)
        ELSE IF fault = "kdfK3"
        THEN Out("CRYPTO_ERROR", she, used, again, nvm, cache, NoRes)
        ELSE Out("NO_ERROR", she, used, freed, nvm, cache,
                 [t |-> "m15", m1 |-> m1, m2 |-> m2, m3 |-> m3, m4 |-> m4,
                  m5 |-> m5])

----------------------------------------------------------------------------
(* PRNG *)

\* AES-CBC with a zero IV over one block
AesCbcBlock(k, p) == [t |-> "cbc1", k |-> k, p |-> p]

\* how many times a PRNG value was rotated since the provisioned seed
RECURSIVE Rotations(_)
Rotations(x) ==
    IF x.t = "cbc1" THEN 1 + Rotations(x.p)
    ELSE IF x.t = "mp" THEN (IF x.h.t = "zero" THEN 0 ELSE 1) + Rotations(x.m)
                            + Rotations(x.h)
    ELSE 0

\* an INIT_RND that does not look at rndInited
hsmSheInitRndAgain(fault) ==
    LET freed == AesFreed("scoped")
        again == AesFreed("again")
        idle == AesFreed("idle")
        secret == hsmReadKey(nvm, cache, WOLFHSM_SHE_SECRET_KEY_ID,
                             fault = "readAuth")
        seedKey == wh_AesMp16(<<secret.obj.key, WOLFHSM_SHE_PRNG_SEED_KEY_C>>)
        seed == hsmReadKey(nvm, cache, WOLFHSM_SHE_PRNG_SEED_ID,
                           fault = "readTarget")
        newSeed == AesCbcBlock(seedKey, seed.obj.key)
        nvm1 == [nvm EXCEPT ![WOLFHSM_SHE_PRNG_SEED_ID] =
                    Obj(newSeed, seed.obj.flags, seed.obj.count)]
        prngKey == wh_AesMp16(<<secret.obj.key, WOLFHSM_SHE_PRNG_KEY_C>>)
    IN  IF secret.ret # "NO_ERROR"
        THEN Out("KEY_NOT_AVAILABLE", she, sheCmac, idle, nvm, cache, NoRes)
        ELSE IF fault = "kdfK2"
        THEN Out("CRYPTO_ERROR", she, sheCmac, again, nvm, cache, NoRes)
        ELSE IF seed.ret # "NO_ERROR"
        THEN Out("KEY_NOT_AVAILABLE", she, sheCmac, again, nvm, cache, NoRes)
        ELSE IF fault = "write"
        THEN Out("KEY_UPDATE_ERROR", she, sheCmac, freed, nvm, cache, NoRes)
        ELSE IF fault = "kdfK3"
        THEN Out("CRYPTO_ERROR", [she EXCEPT !.prngState = newSeed], sheCmac,
                 freed, nvm1, cache, NoRes)
        ELSE Out("NO_ERROR",
                 [she EXCEPT !.prngState = newSeed, !.prngKey = prngKey,
                             !.rndInited = TRUE],
                 sheCmac, freed, nvm1, cache,
                 [t |-> "status", status |-> "NO_ERROR"])

hsmSheInitRnd(fault) ==
    LET freed == AesFreed("scoped")
        again == AesFreed("again")
        idle == AesFreed("idle")
        secret == hsmReadKey(nvm, cache, WOLFHSM_SHE_SECRET_KEY_ID,
                             fault = "readAuth")
        seedKey == wh_AesMp16(<<secret.obj.key, WOLFHSM_SHE_PRNG_SEED_KEY_C>>)
        seed == hsmReadKey(nvm, cache, WOLFHSM_SHE_PRNG_SEED_ID,
                           fault = "readTarget")
        newSeed == AesCbcBlock(seedKey, seed.obj.key)
        nvm1 == [nvm EXCEPT ![WOLFHSM_SHE_PRNG_SEED_ID] =
                    Obj(newSeed, seed.obj.flags, seed.obj.count)]
        prngKey == wh_AesMp16(<<secret.obj.key, WOLFHSM_SHE_PRNG_KEY_C>>)
    IN  IF she.rndInited
        THEN Out("SEQUENCE_ERROR", she, sheCmac, idle, nvm, cache, NoRes)
        ELSE IF secret.ret # "NO_ERROR"
        THEN Out("KEY_NOT_AVAILABLE", she, sheCmac, idle, nvm, cache, NoRes)
        ELSE IF fault = "kdfK2"
        THEN Out("CRYPTO_ERROR", she, sheCmac, again, nvm, cache, NoRes)
        ELSE IF seed.ret # "NO_ERROR"
        THEN Out("KEY_NOT_AVAILABLE", she, sheCmac, again, nvm, cache, NoRes)
        ELSE IF fault = "write"
        THEN Out("KEY_UPDATE_ERROR", she, sheCmac, freed, nvm, cache, NoRes)
        ELSE IF fault = "kdfK3"
        THEN Out("CRYPTO_ERROR", [she EXCEPT !.prngState = newSeed], sheCmac,
                 freed, nvm1, cache, NoRes)
        ELSE Out("NO_ERROR",
                 [she EXCEPT !.prngState = newSeed, !.prngKey = prngKey,
                             !.rndInited = TRUE],
                 sheCmac, freed, nvm1, cache,
                 [t |-> "status", status |-> "NO_ERROR"])

\* an RND that does not look at rndInited
hsmSheRndUnseeded(fault) ==
    LET freed == AesFreed("scoped")
        again == AesFreed("again")
        idle == AesFreed("idle")
        next == AesCbcBlock(she.prngKey, she.prngState)
    IN  IF fault = "aes"
        THEN Out("CRYPTO_ERROR", she, sheCmac, freed, nvm, cache, NoRes)
        ELSE Out("NO_ERROR", [she EXCEPT !.prngState = next], sheCmac, freed,
                 nvm, cache, [t |-> "rnd", rnd |-> next])

hsmSheRnd(fault) ==
    LET freed == AesFreed("scoped")
        again == AesFreed("again")
        idle == AesFreed("idle")
        next == AesCbcBlock(she.prngKey, she.prngState)
    IN  IF ~she.rndInited
        THEN Out("RNG_SEED", she, sheCmac, idle, nvm, cache, NoRes)
        ELSE IF fault = "aes"
        THEN Out("CRYPTO_ERROR", she, sheCmac, freed, nvm, cache, NoRes)
        ELSE Out("NO_ERROR", [she EXCEPT !.prngState = next], sheCmac, freed,
                 nvm, cache, [t |-> "rnd", rnd |-> next])

hsmSheExtendSeed(entropy, fault) ==
    LET freed == AesFreed("scoped")
        again == AesFreed("again")
        idle == AesFreed("idle")
        state1 == wh_AesMp16(<<she.prngState, entropy>>)
        s1 == [she EXCEPT !.prngState = state1]
        seed == hsmReadKey(nvm, cache, WOLFHSM_SHE_PRNG_SEED_ID,
                           fault = "readTarget")
        newSeed == wh_AesMp16(<<seed.obj.key, entropy>>)
        nvm1 == [nvm EXCEPT ![WOLFHSM_SHE_PRNG_SEED_ID] =
                    Obj(newSeed, seed.obj.flags, seed.obj.count)]
    IN  IF ~she.rndInited THEN Untouched("RNG_SEED")
        ELSE IF fault = "kdfK2"
        THEN Out("CRYPTO_ERROR", she, sheCmac, freed, nvm, cache, NoRes)
        ELSE IF seed.ret # "NO_ERROR"
        THEN Out("KEY_NOT_AVAILABLE", s1, sheCmac, freed, nvm, cache, NoRes)
        ELSE IF fault = "kdfK3"
        THEN Out("CRYPTO_ERROR", s1, sheCmac, freed, nvm, cache, NoRes)
        ELSE IF fault = "write"
        THEN Out("KEY_UPDATE_ERROR", s1, sheCmac, freed, nvm, cache, NoRes)
        ELSE Out("NO_ERROR", s1, sheCmac, freed, nvm1, cache,
                 [t |-> "status", status |-> "NO_ERROR"])


----------------------------------------------------------------------------
(* AES ECB / CBC and CMAC services *)

AES_BLOCK_SIZE == 16

\* a length that keeps the tail below one block
NotTruncated(sz) == sz

\* the length the AES handlers process: sz less its tail below one block
Truncated(sz) == sz - (sz % AES_BLOCK_SIZE)

\* the first n elements of a sequence
FirstN(q, n) == [i \in 1 .. n |-> q[i]]

EcbDecryptBlock(k, c) ==
    IF c.t = "ecb" /\ c.k = k THEN c.p ELSE [t |-> "scrambled", k |-> k, ct |-> c]

\* CBC: each block is encrypted chained to the block before it (the IV first)
RECURSIVE CbcEncrypt(_, _, _)
CbcEncrypt(k, prev, in) ==
    IF in = <<>> THEN <<>>
    ELSE LET c == [t |-> "cbcb", k |-> k, prev |-> prev, p |-> Head(in)]
         IN  <<c>> \o CbcEncrypt(k, c, Tail(in))

RECURSIVE CbcDecrypt(_, _, _)
CbcDecrypt(k, prev, in) ==
    IF in = <<>> THEN <<>>
    ELSE LET c == Head(in)
             p == IF c.t = "cbcb" /\ c.k = k /\ c.prev = prev THEN c.p
                  ELSE [t |-> "scrambled", k |-> k, ct |-> c]
         IN  <<p>> \o CbcDecrypt(k, c, Tail(in))

\* the four AES handlers share one shape: mode is the wolfCrypt call made
AesService(mode, req, fault) ==
    LET freed == AesFreed("scoped")
        again == AesFreed("again")
        idle == AesFreed("idle")
        field == Truncated(req.sz)
        rd == hsmReadKey(nvm, cache, req.keyId, fault = "readAuth")
        k == rd.obj.key
        in == FirstN(req.in, field \div AES_BLOCK_SIZE)
        out == CASE mode = "ENC_ECB" ->
                        [i \in 1 .. Len(in) |-> AesEncryptDirect(k, in[i])]
                 [] mode = "DEC_ECB" ->
                        [i \in 1 .. Len(in) |-> EcbDecryptBlock(k, in[i])]
                 [] mode = "ENC_CBC" -> CbcEncrypt(k, req.iv, in)
                 [] mode = "DEC_CBC" -> CbcDecrypt(k, req.iv, in)
    IN  IF rd.ret # "NO_ERROR"
        THEN Out("KEY_NOT_AVAILABLE", she, sheCmac, idle, nvm, cache, NoRes)
        ELSE IF fault = "aes"
        THEN Out("CRYPTO_ERROR", she, sheCmac, freed, nvm, cache, NoRes)
        ELSE Out("NO_ERROR", she, sheCmac, freed, nvm, cache,
                 [t |-> "aes", sz |-> field, out |-> out])

hsmSheEncEcb(req, fault) == AesService("ENC_ECB", req, fault)
hsmSheEncCbc(req, fault) == AesService("ENC_CBC", req, fault)
hsmSheDecEcb(req, fault) == AesService("DEC_ECB", req, fault)
hsmSheDecCbc(req, fault) == AesService("DEC_CBC", req, fault)

hsmSheGenerateMac(req, fault) ==
    LET rd == hsmReadKey(nvm, cache, req.keyId, fault = "readAuth")
        used == [sheCmac EXCEPT !.live = FALSE]
    IN  IF rd.ret # "NO_ERROR" THEN Untouched("KEY_NOT_AVAILABLE")
        ELSE IF fault = "cmac" THEN Untouched("CRYPTO_ERROR")
        ELSE Out("NO_ERROR", she, used, sheAes, nvm, cache,
                 [t |-> "mac", mac |-> Cmac("cmac_msg", rd.obj.key, req.msg)])

\* wc_AesCmacVerify_ex: 0 when the MAC matches, 1 when it does not
hsmSheVerifyMac(req, fault) ==
    LET rd == hsmReadKey(nvm, cache, req.keyId, fault = "readAuth")
        used == [sheCmac EXCEPT !.live = FALSE]
        good == SameBytes(req.mac, Cmac("cmac_msg", rd.obj.key, req.msg))
    IN  IF rd.ret # "NO_ERROR" THEN Untouched("KEY_NOT_AVAILABLE")
        ELSE IF fault = "cmac"
        THEN Out("CRYPTO_ERROR", she, sheCmac, sheAes, nvm, cache,
                 [t |-> "verify", status |-> 1])
        ELSE IF good
        THEN Out("NO_ERROR", she, used, sheAes, nvm, cache,
                 [t |-> "verify", status |-> 0])
        ELSE Out("CMAC_MISMATCH", she, used, sheAes, nvm, cache,
                 [t |-> "verify", status |-> 1])

----------------------------------------------------------------------------
(* wh_Server_HandleSheRequest *)

\* the gate in front of the handlers
\* a gate without the UID clause
GatedByBootOnly(s, action) ==
    s.sbState # "SB_SUCCESS" /\ action \notin PreBootActions

\* a gate that closes only while the secure boot has not started
GatedInInitOnly(s, action) ==
    \/ s.sbState = "SB_INIT" /\ action \notin PreBootActions
    \/ action # "SET_UID" /\ ~s.uidSet

Gated(s, action) ==
    \/ s.sbState # "SB_SUCCESS" /\ action \notin PreBootActions
    \/ action # "SET_UID" /\ ~s.uidSet

\* a dispatcher that replies whatever the handler returned
SheErcRaw(ret) == ret

\* the rc the dispatcher writes for a handler's return value
SheErc(ret) ==
    IF ret = "NO_ERROR" \/ ret \in SheErcPassed THEN ret ELSE "GENERAL_ERROR"

\* a reset that follows SEQUENCE_ERROR alone
SbFaultOnSequenceError(action, ret) ==
    action \in SbActions /\ ret = "SEQUENCE_ERROR"

\* a reset that follows NO_SECURE_BOOT too
SbFaultOnAnyError(action, ret) ==
    action \in SbActions /\ ret # "NO_ERROR"

\* does the dispatcher reset the secure-boot state after this command?
SbFault(action, ret) ==
    action \in SbActions /\ ret # "NO_ERROR" /\ ret # "NO_SECURE_BOOT"

\* a reset that puts sb_state back and leaves the sizes and the key mark
ResetSbStateOnly(s) == [s EXCEPT !.sbState = "SB_INIT"]

ResetSb(s) ==
    [s EXCEPT !.sbState = "SB_INIT", !.blSize = Zero32,
              !.blSizeReceived = Zero32, !.cmacKeyFound = FALSE]

\* the rc field of a request the server never answered
NoReply == "NO_REPLY"

\* one call of the dispatcher; h is what the handler of the action does
HandleSheRequest(action, req, fault, h) ==
    /\ packet = NoPacket
    /\ IF Gated(she, action)
       THEN /\ packet' = [action |-> action, req |-> req, fault |-> "none",
                          handled |-> FALSE, rc |-> "SEQUENCE_ERROR",
                          size |-> "rc", res |-> NoRes, ret |-> "WH_ERROR_OK",
                          aes |-> "none"]
            /\ UNCHANGED <<she, sheCmac, sheAes, nvm, cache, littleEndian, wire>>
       ELSE
         LET stopped == h.ret = ServerFault
             ret == IF stopped THEN NoReply ELSE SheErc(h.ret)
         IN  /\ she' = IF ~stopped /\ SbFault(action, ret)
                       THEN ResetSb(h.she) ELSE h.she
             /\ sheCmac' = h.cmac
             /\ sheAes' = [inited |-> h.aes.inited]
             /\ nvm' = h.nvm
             /\ cache' = h.cache
             /\ packet' = [action |-> action, req |-> req, fault |-> fault,
                           handled |-> TRUE, rc |-> ret,
                           size |-> IF ret = "NO_ERROR" THEN "full" ELSE "rc",
                           res |-> h.res,
                           ret |-> IF stopped THEN NoReply ELSE "WH_ERROR_OK",
                           aes |-> IF "freed" \in DOMAIN h.aes
                                   THEN h.aes.freed ELSE "none"]
             /\ UNCHANGED <<littleEndian, wire>>


----------------------------------------------------------------------------
(* Requests a host sends *)

AuthKeyOf(authId) ==
    IF authId = WOLFHSM_SHE_SECRET_KEY_ID THEN Key("kS") ELSE Key("kA")

\* M1..M3 as a host holding the key of slot authId builds them; a forged
\* request carries an M3 made under another key
LoadKeyReq(uid, id, authId, pt, forged) ==
    LET m1 == [uid |-> uid, id |-> id, authId |-> authId]
        m2 == AesCbcEncrypt(K1Of(AuthKeyOf(authId)), pt)
        macKey == IF forged THEN Key("kForged") ELSE AuthKeyOf(authId)
    IN  [m1 |-> m1, m2 |-> m2,
         m3 |-> Cmac("cmac_lk", K2Of(macKey), [m1 |-> m1, m2 |-> m2])]

\* counters presented in M2: one below 16, and two that span several bytes
Counters == {1, 16, 256}
\* the flag bits of M2: none, WRITE_PROTECT (top bit of byte 4), WILDCARD
\* (low bit of byte 3)
FlagBits == {<<0, 0>>, <<0, 128>>, <<1, 0>>}

NoFault(R) == {[req |-> r, fault |-> "none"] : r \in R}
WithFaults(R, F) == {[req |-> r, fault |-> f] : r \in R, f \in F}

LoadKeyFull ==
    NoFault({LoadKeyReq("uid1", id, WOLFHSM_SHE_MASTER_ECU_KEY_ID,
                        M2Plain(c, fb[1], fb[2], Key("kB")), FALSE)
                : id \in {WOLFHSM_SHE_KEY_1_ID, WOLFHSM_SHE_RAM_KEY_ID},
                  c \in Counters, fb \in FlagBits})
    \cup NoFault({LoadKeyReq(u, WOLFHSM_SHE_KEY_1_ID,
                             WOLFHSM_SHE_MASTER_ECU_KEY_ID,
                             M2Plain(16, 0, 0, Key("kB")), FALSE)
                     : u \in {ZeroUid, "uid2"}})
    \cup NoFault({LoadKeyReq("uid1", WOLFHSM_SHE_KEY_1_ID,
                             WOLFHSM_SHE_MASTER_ECU_KEY_ID,
                             M2Plain(256, 0, 0, Key("kB")), TRUE),
                  LoadKeyReq("uid1", WOLFHSM_SHE_RAM_KEY_ID,
                             WOLFHSM_SHE_SECRET_KEY_ID,
                             M2Plain(1, 0, 0, Key("kA")), FALSE)})
    \cup WithFaults({LoadKeyReq("uid1", WOLFHSM_SHE_KEY_1_ID,
                                WOLFHSM_SHE_MASTER_ECU_KEY_ID,
                                M2Plain(256, 0, 0, Key("kB")), FALSE)},
                    {"readAuth", "kdfK2", "readTarget", "write", "reread",
                     "kdfK3"})

LoadKeyMin ==
    NoFault({LoadKeyReq("uid1", WOLFHSM_SHE_KEY_1_ID,
                        WOLFHSM_SHE_MASTER_ECU_KEY_ID,
                        M2Plain(1, 0, 0, Key("kB")), FALSE)})

SbInitFull ==
    WithFaults({[sz |-> Word(n)] : n \in 0 .. MaxBlSize},
               {"none", "read", "cmacInit", "cmacUpdate"})
SbInitMin == NoFault({[sz |-> Word(0)]})
SbUpdateFull ==
    WithFaults(UpdateReqs, {"none", "cmacUpdate"})
    \cup WithFaults({OverlongReq}, {"segv"})
SbUpdateMin == NoFault({[sz |-> Word(0), data |-> <<>>]})
SbFinishFull == {"none", "cmacFinal", "read"}
SbFinishMin == {"none"}

AesReqs ==
    {[keyId |-> WOLFHSM_SHE_MASTER_ECU_KEY_ID, sz |-> 17, iv |-> ZeroBlock,
      in |-> <<Key("p1")>>]}
MacReqs ==
    {[keyId |-> WOLFHSM_SHE_MASTER_ECU_KEY_ID, msg |-> <<"m">>,
      mac |-> Cmac("cmac_msg", Key("kA"), <<"m">>)]}

----------------------------------------------------------------------------
(* Commands: one dispatch each *)

SetUidCmd ==
    \E u \in {ZeroUid, "uid1"} :
        HandleSheRequest("SET_UID", [uid |-> u], "none", hsmSheSetUid(u))

SecureBootInitCmd(In) ==
    \E x \in In :
        HandleSheRequest("SECURE_BOOT_INIT", x.req, x.fault,
                         hsmSheSecureBootInit(x.req.sz, x.fault))

SecureBootUpdateCmd(In) ==
    \E x \in In :
        HandleSheRequest("SECURE_BOOT_UPDATE", x.req, x.fault,
                         hsmSheSecureBootUpdate(x.req, x.fault))

SecureBootFinishCmd(Faults) ==
    \E f \in Faults :
        HandleSheRequest("SECURE_BOOT_FINISH", NoReq, f,
                         hsmSheSecureBootFinish(f))

GetStatusCmd == HandleSheRequest("GET_STATUS", NoReq, "none", hsmSheGetStatus)

LoadKeyCmd(In) ==
    \E x \in In :
        HandleSheRequest("LOAD_KEY", x.req, x.fault,
                         hsmSheLoadKey(x.req, x.fault))

LoadPlainKeyCmd ==
    \E k \in {"kA"}, f \in {"none"} :
        HandleSheRequest("LOAD_PLAIN_KEY", [key |-> Key(k)], f,
                         hsmSheLoadPlainKey(Key(k), f))

ExportRamKeyCmd ==
    HandleSheRequest("EXPORT_RAM_KEY", NoReq, "none", hsmSheExportRamKey("none"))

InitRndCmd == HandleSheRequest("INIT_RND", NoReq, "none", hsmSheInitRnd("none"))

RndCmd ==
    /\ Rotations(she.prngState) <= MaxRnd
    /\ HandleSheRequest("RND", NoReq, "none", hsmSheRnd("none"))

ExtendSeedCmd ==
    /\ Rotations(she.prngState) <= MaxRnd
    /\ HandleSheRequest("EXTEND_SEED", [entropy |-> Key("e1")], "none",
                        hsmSheExtendSeed(Key("e1"), "none"))

EncEcbCmd ==
    \E r \in AesReqs : HandleSheRequest("ENC_ECB", r, "none", hsmSheEncEcb(r, "none"))
EncCbcCmd ==
    \E r \in AesReqs : HandleSheRequest("ENC_CBC", r, "none", hsmSheEncCbc(r, "none"))
DecEcbCmd ==
    \E r \in AesReqs : HandleSheRequest("DEC_ECB", r, "none", hsmSheDecEcb(r, "none"))
DecCbcCmd ==
    \E r \in AesReqs : HandleSheRequest("DEC_CBC", r, "none", hsmSheDecCbc(r, "none"))
GenMacCmd ==
    \E r \in MacReqs :
        HandleSheRequest("GEN_MAC", r, "none", hsmSheGenerateMac(r, "none"))
VerifyMacCmd ==
    \E r \in MacReqs :
        HandleSheRequest("VERIFY_MAC", r, "none", hsmSheVerifyMac(r, "none"))

\* an action code outside the SHE group: the switch takes its default branch
UnknownCmd ==
    HandleSheRequest("UNKNOWN", NoReq, "none", Untouched("WH_ERROR_BADARGS"))

\* a call with a null server, data or size: the function returns before it
\* looks at the action or touches the packet
NullCall ==
    /\ packet = NoPacket
    /\ \E p \in {"server", "data", "size"} :
          packet' = [NoPacket EXCEPT !.fault = p, !.ret = "WH_ERROR_BADARGS"]
    /\ UNCHANGED <<she, sheCmac, sheAes, nvm, cache, littleEndian, wire>>

\* the transport sends the reply; the buffer is free for the next request
SendReply ==
    /\ packet # NoPacket
    /\ packet.rc # NoReply
    /\ packet' = NoPacket
    /\ UNCHANGED <<she, sheCmac, sheAes, nvm, cache, littleEndian, wire>>

\* the commands whose inputs are the same in every specification
OtherCmds ==
    \/ LoadPlainKeyCmd
    \/ ExportRamKeyCmd
    \/ InitRndCmd
    \/ RndCmd
    \/ ExtendSeedCmd
    \/ EncEcbCmd
    \/ EncCbcCmd
    \/ DecEcbCmd
    \/ DecCbcCmd
    \/ GenMacCmd
    \/ VerifyMacCmd
    \/ UnknownCmd
    \/ SendReply

\* secure boot in full, key update with one request
Next ==
    \/ SetUidCmd
    \/ SecureBootInitCmd(SbInitFull)
    \/ SecureBootUpdateCmd(SbUpdateFull)
    \/ SecureBootFinishCmd(SbFinishFull)
    \/ GetStatusCmd
    \/ LoadKeyCmd(LoadKeyMin)
    \/ OtherCmds
    \/ NullCall

Spec == Init /\ [][Next]_vars

\* key update in full, secure boot with one image size
NextKey ==
    \/ SetUidCmd
    \/ SecureBootInitCmd(SbInitMin)
    \/ SecureBootUpdateCmd(SbUpdateMin)
    \/ SecureBootFinishCmd(SbFinishMin)
    \/ GetStatusCmd
    \/ LoadKeyCmd(LoadKeyFull)
    \/ OtherCmds

SpecKey == InitKey /\ [][NextKey]_vars

----------------------------------------------------------------------------
(* The RAM key: failing calls, the host keeping an exported key, and a
   power cycle between an export and an import *)

InitRam == Startup({Config(FALSE, FALSE, sk, NoObj) : sk \in BOOLEAN})

\* LOAD_KEY requests to the RAM slot: plain, write-protected, wildcard
LoadKeyRam ==
    NoFault({LoadKeyReq("uid1", WOLFHSM_SHE_RAM_KEY_ID,
                        WOLFHSM_SHE_MASTER_ECU_KEY_ID,
                        M2Plain(1, fb[1], fb[2], Key("kB")), FALSE)
                : fb \in {<<0, 0>>, <<0, 128>>, <<8, 0>>}})
    \cup NoFault({LoadKeyReq(ZeroUid, WOLFHSM_SHE_RAM_KEY_ID,
                             WOLFHSM_SHE_MASTER_ECU_KEY_ID,
                             M2Plain(1, 8, 0, Key("kB")), FALSE)})

LoadPlainKeyFails ==
    \E k \in {"kB"}, f \in {"none", "write"} :
        HandleSheRequest("LOAD_PLAIN_KEY", [key |-> Key(k)], f,
                         hsmSheLoadPlainKey(Key(k), f))

ExportRamKeyFails ==
    \E f \in {"readAuth", "kdfK2", "readTarget", "kdfK3"} :
        HandleSheRequest("EXPORT_RAM_KEY", NoReq, f, hsmSheExportRamKey(f))

\* the host takes M1..M5 out of the reply to EXPORT_RAM_KEY and keeps them
KeepExport ==
    /\ packet.action = "EXPORT_RAM_KEY"
    /\ packet.rc = "NO_ERROR"
    /\ wire' = packet.res
    /\ packet' = NoPacket
    /\ UNCHANGED <<she, sheCmac, sheAes, nvm, cache, littleEndian>>

\* the LOAD_KEY request a host makes of the M1..M3 it has kept
ImportReq(w) == [m1 |-> w.m1, m2 |-> w.m2, m3 |-> w.m3]

ImportCmd ==
    /\ wire # NoRes
    /\ \E f \in {"none", "readAuth", "kdfK3"} :
          HandleSheRequest("LOAD_KEY", ImportReq(wire), f,
                           hsmSheLoadKey(ImportReq(wire), f))

\* a power cycle: the session and the RAM cache are lost, the NVM is kept
Reboot ==
    /\ packet = NoPacket
    /\ she # InitShe
    /\ she' = InitShe
    /\ sheCmac' = NoCmac
    /\ sheAes' = [inited |-> FALSE]
    /\ cache' = NoObj
    /\ UNCHANGED <<nvm, packet, littleEndian, wire>>

NextRam ==
    \/ SetUidCmd
    \/ SecureBootInitCmd(SbInitMin)
    \/ SecureBootUpdateCmd(SbUpdateMin)
    \/ SecureBootFinishCmd(SbFinishMin)
    \/ GetStatusCmd
    \/ LoadKeyCmd(LoadKeyRam)
    \/ LoadPlainKeyCmd
    \/ LoadPlainKeyFails
    \/ ExportRamKeyCmd
    \/ ExportRamKeyFails
    \/ KeepExport
    \/ ImportCmd
    \/ Reboot
    \/ UnknownCmd
    \/ SendReply

SpecRam == InitRam /\ [][NextRam]_vars

----------------------------------------------------------------------------
(* The PRNG: failing calls, stores with and without the seed *)

InitPrng ==
    /\ littleEndian \in BOOLEAN
    /\ she = InitShe
    /\ sheCmac = NoCmac
    /\ sheAes = [inited |-> FALSE]
    /\ \E sk \in BOOLEAN, seed \in BOOLEAN :
          nvm = [ProvisionedNvm(Config(FALSE, FALSE, sk, NoObj), littleEndian)
                    EXCEPT ![WOLFHSM_SHE_PRNG_SEED_ID] =
                               IF seed THEN @ ELSE NoObj]
    /\ cache = NoObj
    /\ packet = NoPacket
    /\ wire = NoRes

\* how many times the stored PRNG seed was rotated since provisioning
SeedRotations ==
    IF nvm[WOLFHSM_SHE_PRNG_SEED_ID].present
    THEN Rotations(nvm[WOLFHSM_SHE_PRNG_SEED_ID].key) ELSE 0

InitRndFails ==
    \E f \in {"readAuth", "kdfK2", "readTarget", "write", "kdfK3"} :
        /\ SeedRotations <= MaxRnd
        /\ HandleSheRequest("INIT_RND", NoReq, f, hsmSheInitRnd(f))

RndFails ==
    /\ Rotations(she.prngState) <= MaxRnd
    /\ HandleSheRequest("RND", NoReq, "aes", hsmSheRnd("aes"))

ExtendSeedFails ==
    \E f \in {"kdfK2", "readTarget", "kdfK3", "write"} :
        /\ Rotations(she.prngState) <= MaxRnd
        /\ HandleSheRequest("EXTEND_SEED", [entropy |-> Key("e1")], f,
                            hsmSheExtendSeed(Key("e1"), f))

NextPrng ==
    \/ SetUidCmd
    \/ SecureBootInitCmd(SbInitMin)
    \/ SecureBootUpdateCmd(SbUpdateMin)
    \/ SecureBootFinishCmd(SbFinishMin)
    \/ GetStatusCmd
    \/ LoadKeyCmd(LoadKeyMin)
    \/ OtherCmds
    \/ InitRndFails
    \/ RndFails
    \/ ExtendSeedFails

SpecPrng == InitPrng /\ [][NextPrng]_vars

----------------------------------------------------------------------------
(* The AES and CMAC services: lengths around the block size, keys that are
   stored and keys that are not, and a host that feeds a reply back *)

\* ECB / CBC requests: sz bytes of payload, of which in are the whole blocks
AesFull ==
    {[keyId |-> id, sz |-> (AES_BLOCK_SIZE * b) + r, iv |-> Key("iv"),
      in |-> [i \in 1 .. b |-> Key(i)]]
        : id \in {WOLFHSM_SHE_MASTER_ECU_KEY_ID, WOLFHSM_SHE_KEY_1_ID},
          b \in 0 .. MaxAesBlocks, r \in {0, 1, 15}}

\* GEN_MAC / VERIFY_MAC requests: the MAC presented is right, is the one of
\* another message, or is no MAC at all
MacFull ==
    {[keyId |-> id, msg |-> m, mac |-> mac]
        : id \in {WOLFHSM_SHE_MASTER_ECU_KEY_ID, WOLFHSM_SHE_KEY_1_ID},
          m \in {<<"m">>, <<"n">>},
          mac \in {Cmac("cmac_msg", Key("kA"), <<"m">>), Key("forged")}}

AesCmdFull ==
    \E r \in AesFull, f \in {"none", "readAuth", "aes"} :
        \/ HandleSheRequest("ENC_ECB", r, f, hsmSheEncEcb(r, f))
        \/ HandleSheRequest("ENC_CBC", r, f, hsmSheEncCbc(r, f))
        \/ HandleSheRequest("DEC_ECB", r, f, hsmSheDecEcb(r, f))
        \/ HandleSheRequest("DEC_CBC", r, f, hsmSheDecCbc(r, f))

MacCmdFull ==
    \E r \in MacFull, f \in {"none", "readAuth", "cmac"} :
        \/ HandleSheRequest("GEN_MAC", r, f, hsmSheGenerateMac(r, f))
        \/ HandleSheRequest("VERIFY_MAC", r, f, hsmSheVerifyMac(r, f))

\* the host keeps the reply to an ENC_ECB or a GEN_MAC with the request it
\* had sent
KeepOutput ==
    /\ packet.action \in {"ENC_ECB", "GEN_MAC"}
    /\ packet.rc = "NO_ERROR"
    /\ wire' = [t |-> "kept", action |-> packet.action, req |-> packet.req,
                res |-> packet.res]
    /\ packet' = NoPacket
    /\ UNCHANGED <<she, sheCmac, sheAes, nvm, cache, littleEndian>>

\* the host sends what it kept back: the ciphertext to DEC_ECB under the same
\* key, the MAC to VERIFY_MAC with the same or another message
KeptCmd ==
    /\ wire # NoRes
    /\ \/ /\ wire.action = "ENC_ECB"
          /\ LET r == [keyId |-> wire.req.keyId, sz |-> wire.res.sz,
                       iv |-> wire.req.iv, in |-> wire.res.out]
             IN  HandleSheRequest("DEC_ECB", r, "none", hsmSheDecEcb(r, "none"))
       \/ /\ wire.action = "GEN_MAC"
          /\ \E m \in {wire.req.msg, <<"x">>} :
               LET r == [keyId |-> wire.req.keyId, msg |-> m,
                         mac |-> wire.res.mac]
               IN  HandleSheRequest("VERIFY_MAC", r, "none",
                                    hsmSheVerifyMac(r, "none"))

NextAes ==
    \/ SetUidCmd
    \/ SecureBootInitCmd(SbInitMin)
    \/ SecureBootUpdateCmd(SbUpdateMin)
    \/ SecureBootFinishCmd(SbFinishMin)
    \/ AesCmdFull
    \/ MacCmdFull
    \/ KeepOutput
    \/ KeptCmd
    \/ SendReply

SpecAes == InitKey /\ [][NextAes]_vars


----------------------------------------------------------------------------
(* Properties *)

\* this step is one dispatch of the action
Dispatches(a) == packet = NoPacket /\ packet'.action = a
\* this step is one dispatch, of any action
DispatchesAny == packet = NoPacket /\ packet'.action # "NONE"
\* the step leaves the session and the key store as they were
StateKept ==
    /\ she' = she
    /\ sheCmac' = sheCmac
    /\ sheAes' = sheAes
    /\ nvm' = nvm
    /\ cache' = cache

\* C1: while uid_set is false, every action other than SET_UID (GET_STATUS
\* and the SB commands included) is answered SEQUENCE_ERROR and changes
\* neither the session state nor the key store.
C1_OnlySetUidBeforeUid ==
    [][(DispatchesAny /\ ~she.uidSet /\ packet'.action # "SET_UID")
          => (packet'.rc = "SEQUENCE_ERROR" /\ StateKept)]_vars

C1_Witness ==
    /\ ~she.uidSet
    /\ packet.action = "SECURE_BOOT_INIT"
    /\ packet.rc = "SEQUENCE_ERROR"

\* C2: with the UID set and sb_state not SUCCESS, every action outside
\* {SET_UID, SB_INIT, SB_UPDATE, SB_FINISH, GET_STATUS} is answered
\* SEQUENCE_ERROR without its handler running, and changes nothing.
C2_OnlyBootCommandsBeforeSuccess ==
    [][(DispatchesAny /\ she.uidSet /\ she.sbState # "SB_SUCCESS"
            /\ packet'.action \notin PreBootActions)
          => (packet'.rc = "SEQUENCE_ERROR" /\ ~packet'.handled /\ StateKept)]_vars

C2_Witness ==
    /\ she.uidSet
    /\ she.sbState = "SB_UPDATE"
    /\ packet.action = "LOAD_PLAIN_KEY"
    /\ packet.rc = "SEQUENCE_ERROR"
    /\ ~packet.handled

\* C3: the first SET_UID is answered NO_ERROR and stores its UID with
\* uid_set true; every later SET_UID, with any UID and in any sb_state, is
\* answered SEQUENCE_ERROR; once set, uid and uid_set never change.
C3_UidSetOnce ==
    [][/\ (Dispatches("SET_UID") /\ ~she.uidSet)
            => (packet'.rc = "NO_ERROR" /\ she'.uidSet
                /\ she'.uid = packet'.req.uid)
       /\ (Dispatches("SET_UID") /\ she.uidSet)
            => packet'.rc = "SEQUENCE_ERROR"
       /\ she.uidSet => (she'.uidSet /\ she'.uid = she.uid)]_vars

C3_Witness ==
    /\ she.uidSet
    /\ she.sbState = "SB_SUCCESS"
    /\ packet.action = "SET_UID"
    /\ packet.rc = "SEQUENCE_ERROR"
    /\ packet.req.uid # she.uid

\* C4: SUCCESS and FAILURE are terminal: once sb_state is SUCCESS or FAILURE
\* no later command changes it.
C4_TerminalStates ==
    [][she.sbState \in {"SB_SUCCESS", "SB_FAILURE"}
          => she'.sbState = she.sbState]_vars

\* the CMAC the secure-boot context would finalise to
SbDigest == Cmac("cmac_sb", sheCmac.key, sheCmac.msg)
BootMacObj == StoredObj(nvm, cache, WOLFHSM_SHE_BOOT_MAC)

\* C5: SB_FINISH in state FINISH: CMAC equal to the stored BOOT_MAC gives
\* NO_ERROR and sb_state SUCCESS; a different CMAC gives GENERAL_ERROR and
\* sb_state FAILURE; no BOOT_MAC gives KEY_NOT_AVAILABLE.
C5_FinishOutcome ==
    [][(Dispatches("SECURE_BOOT_FINISH") /\ she.uidSet
            /\ she.sbState = "SB_FINISH" /\ packet'.fault = "none")
          => IF ~BootMacObj.present
             THEN packet'.rc = "KEY_NOT_AVAILABLE"
             ELSE IF SameBytes(SbDigest, BootMacObj.key)
             THEN packet'.rc = "NO_ERROR" /\ she'.sbState = "SB_SUCCESS"
             ELSE packet'.rc = "GENERAL_ERROR"
                  /\ she'.sbState = "SB_FAILURE"]_vars

\* the state each secure-boot command is accepted in
SbAccepting(a) ==
    CASE a = "SECURE_BOOT_INIT" -> "SB_INIT"
      [] a = "SECURE_BOOT_UPDATE" -> "SB_UPDATE"
      [] a = "SECURE_BOOT_FINISH" -> "SB_FINISH"

SbCleared ==
    /\ she'.sbState = "SB_INIT"
    /\ she'.blSize = Zero32
    /\ she'.blSizeReceived = Zero32
    /\ ~she'.cmacKeyFound

\* C6: with the UID set, a secure-boot command dispatched in a state other
\* than the one that accepts it is answered SEQUENCE_ERROR; and after any
\* secure-boot command answered with an error other than NO_SECURE_BOOT the
\* state is INIT with bl_size 0, bl_received 0 and cmac_key_found false.
C6_SbErrorResets ==
    [][/\ (DispatchesAny /\ packet'.action \in SbActions /\ she.uidSet
             /\ she.sbState # SbAccepting(packet'.action))
            => packet'.rc = "SEQUENCE_ERROR"
       /\ (DispatchesAny /\ packet'.action \in SbActions
             /\ packet'.rc \notin {"NO_ERROR", "NO_SECURE_BOOT", NoReply})
            => SbCleared]_vars

C6_Witness ==
    /\ packet.action = "SECURE_BOOT_FINISH"
    /\ packet.handled
    /\ packet.rc = "SEQUENCE_ERROR"
    /\ sheCmac.live
    /\ sheCmac.msg.image # <<>>
    /\ she.sbState = "SB_INIT"
    /\ she.blSize = Zero32
    /\ she.blSizeReceived = Zero32

\* does bl_received + len exceed bl_size, computed without wrapping?
WouldExceed(received, len, size) ==
    LET lo == received[2] + len[2]
        hi == received[1] + len[1] + (lo \div W16)
    IN  hi >= W16 \/ Gt32(<<hi % W16, lo % W16>>, size)

\* C7: bl_received never exceeds bl_size between dispatches; an SB_UPDATE in
\* state UPDATE whose chunk length would take bl_received past bl_size is
\* answered SEQUENCE_ERROR, feeds nothing to the CMAC and leaves the state
\* INIT with both counters 0.
C7_NoOverrun ==
    [][/\ Le32(she'.blSizeReceived, she'.blSize)
       /\ (Dispatches("SECURE_BOOT_UPDATE") /\ she.uidSet
             /\ she.sbState = "SB_UPDATE"
             /\ WouldExceed(she.blSizeReceived, packet'.req.sz, she.blSize))
            => /\ packet'.rc = "SEQUENCE_ERROR"
               /\ sheCmac' = sheCmac
               /\ she'.sbState = "SB_INIT"
               /\ she'.blSize = Zero32
               /\ she'.blSizeReceived = Zero32]_vars

\* C8: SB_INIT in state INIT with the UID set and no BOOT_MAC_KEY in the key
\* store is answered NO_SECURE_BOOT and leaves sb_state SUCCESS with
\* cmac_key_found false; GET_STATUS in that state reports BOOT_OK and
\* BOOT_FINISHED set and SECURE_BOOT clear.
C8_NoBootKeySkipsBoot ==
    [][/\ (Dispatches("SECURE_BOOT_INIT") /\ she.uidSet
             /\ she.sbState = "SB_INIT"
             /\ ~StoredObj(nvm, cache, WOLFHSM_SHE_BOOT_MAC_KEY_ID).present)
            => /\ packet'.rc = "NO_SECURE_BOOT"
               /\ she'.sbState = "SB_SUCCESS"
               /\ ~she'.cmacKeyFound
       /\ (Dispatches("GET_STATUS") /\ she.uidSet
             /\ she.sbState = "SB_SUCCESS" /\ ~she.cmacKeyFound)
            => /\ packet'.rc = "NO_ERROR"
               /\ HasFlag(packet'.res.sreg, WOLFHSM_SHE_SREG_BOOT_OK)
               /\ HasFlag(packet'.res.sreg, WOLFHSM_SHE_SREG_BOOT_FINISHED)
               /\ ~HasFlag(packet'.res.sreg, WOLFHSM_SHE_SREG_SECURE_BOOT)]_vars

C8_Witness ==
    /\ packet.action = "GET_STATUS"
    /\ packet.rc = "NO_ERROR"
    /\ ~StoredObj(nvm, cache, WOLFHSM_SHE_BOOT_MAC_KEY_ID).present
    /\ she.sbState = "SB_SUCCESS"
    /\ she.blSize # Zero32
    /\ ~she.cmacKeyFound
    /\ HasFlag(packet.res.sreg, WOLFHSM_SHE_SREG_BOOT_OK)

\* the slot a LOAD_KEY request addresses, as the key store holds it
TargetObj(req) == StoredObj(nvm, cache, req.m1.id)
AuthObj(req) == StoredObj(nvm, cache, req.m1.authId)

\* the request authenticates: the AUTH key exists and M3 is the CMAC of
\* M1 | M2 under the K2 derived from it
Authentic(req) ==
    /\ AuthObj(req).present
    /\ SameBytes(req.m3, Cmac("cmac_lk", K2Of(AuthObj(req).key),
                              [m1 |-> req.m1, m2 |-> req.m2]))

\* M2 in the clear
M2Of(req) == AesCbcDecrypt(K1Of(AuthObj(req).key), req.m2)

ProtectedTarget(req) ==
    /\ TargetObj(req).present
    /\ HasFlag(TargetObj(req).flags, WOLFHSM_SHE_FLAG_WRITE_PROTECT)

StoreKept == nvm' = nvm /\ cache' = cache

StorableCounters == {0} \cup Counters
FlagNibbles == {fb[1] : fb \in FlagBits}

\* the M2 counter the slot was last written with: the one that the write of
\* she_meta->count turns into the stored count
StoredCounter(obj, le) ==
    CHOOSE c \in StorableCounters :
        \E fn \in FlagNibbles :
            HostCounter(M2Plain(c, fn, 0, ZeroBlock), le) = obj.count

\* C10: a LOAD_KEY to an existing slot whose M2 counter is not greater than
\* the counter stored for the slot is answered KEY_UPDATE_ERROR and leaves
\* the key store as it was.
C10_RollbackRefused ==
    [][(Dispatches("LOAD_KEY") /\ she.uidSet /\ she.sbState = "SB_SUCCESS"
            /\ packet'.fault = "none"
            /\ Authentic(packet'.req)
            /\ TargetObj(packet'.req).present
            /\ ~ProtectedTarget(packet'.req)
            /\ packet'.req.m1.uid = she.uid
            /\ Le32(M2Counter(M2Of(packet'.req)),
                    Word(StoredCounter(TargetObj(packet'.req), littleEndian))))
          => (packet'.rc = "KEY_UPDATE_ERROR" /\ StoreKept)]_vars

\* C11: LOAD_KEY is all-or-nothing on the key store: after every LOAD_KEY
\* answered with an error, whatever step failed, the NVM store and the RAM
\* key cache are what they were before the call.
C11_LoadKeyAllOrNothing ==
    [][(Dispatches("LOAD_KEY") /\ packet'.rc # "NO_ERROR") => StoreKept]_vars

\* C12: LOAD_KEY writes to the key store only when the key in slot AUTHID
\* exists and M3 is the CMAC of M1 | M2 under the K2 derived from it; a
\* missing AUTH key is answered KEY_NOT_AVAILABLE and a wrong M3
\* KEY_UPDATE_ERROR, whatever the target slot holds, with the store untouched.
C12_WritesOnlyAuthentic ==
    [][(Dispatches("LOAD_KEY") /\ packet'.handled)
          => /\ ~AuthObj(packet'.req).present
                  => (packet'.rc = "KEY_NOT_AVAILABLE" /\ StoreKept)
             /\ (AuthObj(packet'.req).present /\ ~Authentic(packet'.req)
                   /\ packet'.fault \notin {"readAuth", "kdfK2"})
                  => (packet'.rc = "KEY_UPDATE_ERROR" /\ StoreKept)
             /\ ~StoreKept => Authentic(packet'.req)]_vars

C12_Witness ==
    /\ packet.action = "LOAD_KEY"
    /\ packet.handled
    /\ packet.rc = "KEY_UPDATE_ERROR"
    /\ AuthObj(packet.req).present
    /\ ~Authentic(packet.req)
    /\ ProtectedTarget(packet.req)

\* the stored target slot carries the WILDCARD flag
WildcardTarget(req) ==
    /\ TargetObj(req).present
    /\ HasFlag(TargetObj(req).flags, WOLFHSM_SHE_FLAG_WILDCARD)

\* C13: the UID check of LOAD_KEY, on a request that authenticated and whose
\* target is not write-protected: with the UID bytes of M1 all zero the
\* update is accepted only if the stored target has the WILDCARD flag (an
\* absent slot or one without WILDCARD gives KEY_UPDATE_ERROR); otherwise
\* they must equal the session UID, else KEY_UPDATE_ERROR; a rejected
\* request leaves the store as it was.
C13_UidCheck ==
    [][(Dispatches("LOAD_KEY") /\ packet'.handled)
          => /\ (Authentic(packet'.req) /\ ~ProtectedTarget(packet'.req)
                   /\ packet'.fault \notin {"readAuth", "kdfK2", "readTarget"}
                   /\ IF packet'.req.m1.uid = ZeroUid
                      THEN ~WildcardTarget(packet'.req)
                      ELSE packet'.req.m1.uid # she.uid)
                  => (packet'.rc = "KEY_UPDATE_ERROR" /\ StoreKept)
             /\ packet'.rc = "NO_ERROR"
                  => IF packet'.req.m1.uid = ZeroUid
                     THEN WildcardTarget(packet'.req)
                     ELSE packet'.req.m1.uid = she.uid]_vars

C13_Witness ==
    /\ packet.action = "LOAD_KEY"
    /\ packet.rc = "NO_ERROR"
    /\ packet.req.m1.uid = ZeroUid
    /\ she.uid # ZeroUid


\* this step is a load that puts a plain key in the RAM slot and succeeds
PlainLoaded ==
    \/ Dispatches("LOAD_PLAIN_KEY") /\ packet'.rc = "NO_ERROR"
    \/ /\ Dispatches("LOAD_KEY")
       /\ packet'.req.m1.id = WOLFHSM_SHE_RAM_KEY_ID
       /\ packet'.rc = "NO_ERROR"

Imports ==
    /\ Dispatches("LOAD_KEY")
    /\ wire # NoRes
    /\ packet'.req = ImportReq(wire)
    /\ packet'.handled
    /\ packet'.fault = "none"
    /\ she.uid = wire.m1.uid

\* the key inside the M2 the host kept
ExportedKey ==
    AesCbcDecrypt(K1Of(nvm[WOLFHSM_SHE_SECRET_KEY_ID].key), wire.m2).key

\* the import is answered NO_ERROR, leaves the exported key in the RAM slot
\* and returns the M4, M5 the export returned
RoundTrip ==
    /\ packet'.rc = "NO_ERROR"
    /\ cache'.present
    /\ cache'.key = ExportedKey
    /\ packet'.res.t = "m45"
    /\ SameBytes(packet'.res.m4.enc, wire.m4.enc)
    /\ packet'.res.m4 = wire.m4
    /\ SameBytes(packet'.res.m5, wire.m5)

\* C15 as the specification words it: for every key and every session UID,
\* the all-zero UID included, the M1..M3 of an EXPORT_RAM_KEY are accepted
\* by LOAD_KEY on a booted module with the same SECRET_KEY and session UID,
\* which then holds the key in its RAM slot and returns the same M4, M5.
C15_RoundTripAlways == [][Imports => RoundTrip]_vars

\* the RAM slot as a module has it that was started afresh or was given its
\* RAM key by LOAD_PLAIN_KEY: empty, or counter 0 and no flags
FreshRamSlot ==
    cache.present => (cache.count = Zero32 /\ cache.flags = 0)

\* C15, amended: for every key and every session UID other than the all-zero
\* UID, the M1..M3 of an EXPORT_RAM_KEY are accepted by LOAD_KEY on a booted
\* module with the same SECRET_KEY and session UID whose RAM slot is empty
\* or holds a key loaded in plain; that module then holds the key in its RAM
\* slot and returns the same M4, M5.
C15_RoundTrip ==
    [][(Imports /\ she.uid # ZeroUid /\ FreshRamSlot) => RoundTrip]_vars

\* an import answered NO_ERROR of a key that was loaded in plain and exported
\* under the same non-zero UID: the key is in the RAM slot, M4 is the
\* exported one
C15_Witness ==
    /\ packet.action = "LOAD_KEY"
    /\ wire # NoRes
    /\ packet.req = ImportReq(wire)
    /\ packet.rc = "NO_ERROR"
    /\ she.uid # ZeroUid
    /\ cache.key = Key("kA")
    /\ packet.res.m4 = wire.m4


\* the PRNG state, the PRNG key and the stored PRNG_SEED are as they were
PrngKept ==
    /\ she'.prngState = she.prngState
    /\ she'.prngKey = she.prngKey
    /\ nvm'[WOLFHSM_SHE_PRNG_SEED_ID] = nvm[WOLFHSM_SHE_PRNG_SEED_ID]

\* C16: rndInited goes from false to true only in an INIT_RND answered
\* NO_ERROR, and every such INIT_RND sets it; once true it stays true; every
\* INIT_RND sent while it is true is answered SEQUENCE_ERROR and leaves
\* prngState, prngKey and the stored PRNG_SEED as they were.
C16_InitRndOnce ==
    [][/\ (~she.rndInited /\ she'.rndInited) =>
              (Dispatches("INIT_RND") /\ packet'.rc = "NO_ERROR")
       /\ (Dispatches("INIT_RND") /\ packet'.rc = "NO_ERROR") =>
              (~she.rndInited /\ she'.rndInited)
       /\ she.rndInited => she'.rndInited
       /\ (Dispatches("INIT_RND") /\ she.rndInited) =>
              (packet'.rc = "SEQUENCE_ERROR" /\ PrngKept)]_vars

\* a second INIT_RND reached its handler and was answered SEQUENCE_ERROR
\* after the PRNG had produced output
C16_Witness ==
    /\ packet.action = "INIT_RND"
    /\ packet.handled
    /\ packet.rc = "SEQUENCE_ERROR"
    /\ she.rndInited
    /\ Rotations(she.prngState) > 1


\* C17: in a booted session whose rndInited is false, RND and EXTEND_SEED
\* are answered RNG_SEED, return no random output and leave prngState and
\* the stored PRNG_SEED as they were; an INIT_RND that finds SECRET_KEY
\* missing, or reaches the read of PRNG_SEED and finds it missing, is
\* answered KEY_NOT_AVAILABLE and rndInited stays false.
C17_Unseeded ==
    [][/\ (/\ Dispatches("RND") \/ Dispatches("EXTEND_SEED")
           /\ packet'.handled
           /\ ~she.rndInited)
          => /\ packet'.rc = "RNG_SEED"
             /\ packet'.res = NoRes
             /\ she'.prngState = she.prngState
             /\ nvm'[WOLFHSM_SHE_PRNG_SEED_ID] = nvm[WOLFHSM_SHE_PRNG_SEED_ID]
       /\ (/\ Dispatches("INIT_RND")
           /\ packet'.handled
           /\ ~she.rndInited
           /\ \/ ~nvm[WOLFHSM_SHE_SECRET_KEY_ID].present
              \/ /\ ~nvm[WOLFHSM_SHE_PRNG_SEED_ID].present
                 /\ packet'.fault # "kdfK2")
          => (packet'.rc = "KEY_NOT_AVAILABLE" /\ ~she'.rndInited)]_vars

\* an INIT_RND answered KEY_NOT_AVAILABLE for the missing PRNG_SEED alone
C17_Witness ==
    /\ packet.action = "INIT_RND"
    /\ packet.handled
    /\ packet.fault = "none"
    /\ packet.rc = "KEY_NOT_AVAILABLE"
    /\ nvm[WOLFHSM_SHE_SECRET_KEY_ID].present
    /\ ~nvm[WOLFHSM_SHE_PRNG_SEED_ID].present
    /\ ~she.rndInited

\* the codes a reply can carry
ReplyCodes == {"NO_ERROR", "GENERAL_ERROR"} \cup SheErcPassed

\* C18: the rc of every reply the dispatcher writes is NO_ERROR,
\* GENERAL_ERROR or one of the eleven SHE codes it passes through; what a
\* handler returns otherwise is replaced by GENERAL_ERROR: the BADARGS of an
\* unknown action, the key-store error of a LOAD_PLAIN_KEY whose cache write
\* fails, the wolfCrypt error of an EXPORT_RAM_KEY whose key derivation
\* fails.
C18_ReplyCodes ==
    [][(DispatchesAny /\ packet'.rc # NoReply)
          => /\ packet'.rc \in ReplyCodes
             /\ (packet'.action = "UNKNOWN" /\ packet'.handled)
                  => packet'.rc = "GENERAL_ERROR"
             /\ (/\ packet'.action = "LOAD_PLAIN_KEY"
                 /\ packet'.handled
                 /\ packet'.fault = "write")
                  => packet'.rc = "GENERAL_ERROR"
             /\ (/\ packet'.action = "EXPORT_RAM_KEY"
                 /\ packet'.handled
                 /\ packet'.fault = "kdfK2"
                 /\ she.ramKeyPlain
                 /\ nvm[WOLFHSM_SHE_SECRET_KEY_ID].present)
                  => packet'.rc = "GENERAL_ERROR"]_vars

\* a LOAD_PLAIN_KEY whose cache write failed, answered GENERAL_ERROR
C18_Witness ==
    /\ packet.action = "LOAD_PLAIN_KEY"
    /\ packet.handled
    /\ packet.fault = "write"
    /\ packet.rc = "GENERAL_ERROR"


\* this step is one call of the dispatcher, with or without null arguments
Calls == packet = NoPacket /\ packet' # NoPacket

\* C19: a call of the dispatcher with server, data and size not null returns
\* 0 (WH_ERROR_OK) and writes rc, whatever the action and whatever its
\* handler does; a call returns BADARGS only when one of the three is null,
\* and then it writes no reply and changes no state.
C19_AlwaysReplies ==
    [][Calls =>
         IF packet'.fault \in {"server", "data", "size"}
         THEN /\ packet'.ret = "WH_ERROR_BADARGS"
              /\ packet'.size = "none"
              /\ StateKept
         ELSE /\ packet'.ret = "WH_ERROR_OK"
              /\ packet'.size # "none"
              /\ packet'.rc \in ReplyCodes]_vars


\* the bits of the SREG byte that GET_STATUS never sets
OtherSregBits ==
    {b \in {1, 2, 4, 8, 16, 32, 64, 128} :
        b \notin {WOLFHSM_SHE_SREG_SECURE_BOOT, WOLFHSM_SHE_SREG_BOOT_FINISHED,
                  WOLFHSM_SHE_SREG_BOOT_OK, WOLFHSM_SHE_SREG_RND_INIT}}

\* C20: with the UID set, GET_STATUS is answered NO_ERROR in every
\* secure-boot state and changes no state; in the sreg byte it returns,
\* SECURE_BOOT is set exactly when cmacKeyFound, BOOT_FINISHED exactly when
\* sbState is SUCCESS or FAILURE, BOOT_OK exactly when it is SUCCESS,
\* RND_INIT exactly when rndInited, and every other bit is zero.
C20_GetStatus ==
    [][(Dispatches("GET_STATUS") /\ she.uidSet) =>
         LET sreg == packet'.res.sreg
         IN  /\ packet'.rc = "NO_ERROR"
             /\ StateKept
             /\ packet'.res.t = "sreg"
             /\ sreg \in 0 .. 255
             /\ HasFlag(sreg, WOLFHSM_SHE_SREG_SECURE_BOOT)
                  <=> she.cmacKeyFound
             /\ HasFlag(sreg, WOLFHSM_SHE_SREG_BOOT_FINISHED)
                  <=> she.sbState \in {"SB_SUCCESS", "SB_FAILURE"}
             /\ HasFlag(sreg, WOLFHSM_SHE_SREG_BOOT_OK)
                  <=> she.sbState = "SB_SUCCESS"
             /\ HasFlag(sreg, WOLFHSM_SHE_SREG_RND_INIT) <=> she.rndInited
             /\ \A b \in OtherSregBits : ~HasFlag(sreg, b)]_vars

\* a GET_STATUS answered after a measured boot succeeded and the PRNG was
\* initialised: all four bits set
C20_Witness ==
    /\ packet.action = "GET_STATUS"
    /\ packet.rc = "NO_ERROR"
    /\ she.cmacKeyFound
    /\ she.sbState = "SB_SUCCESS"
    /\ she.rndInited
    /\ packet.res.sreg = 58


AesActions == {"ENC_ECB", "ENC_CBC", "DEC_ECB", "DEC_CBC"}

\* this step is a DEC_ECB, reaching its handler, of the ciphertext the host
\* kept from an ENC_ECB, under the same key
DecryptsKept ==
    /\ Dispatches("DEC_ECB")
    /\ packet'.handled
    /\ packet'.fault = "none"
    /\ wire # NoRes
    /\ wire.action = "ENC_ECB"
    /\ packet'.req.keyId = wire.req.keyId
    /\ packet'.req.in = wire.res.out

\* C21: an ENC_ECB, ENC_CBC, DEC_ECB or DEC_CBC whose key is stored and
\* whose wolfCrypt calls succeed is answered NO_ERROR, processes
\* sz - (sz mod 16) bytes and reports that length; with no key stored under
\* the key id the answer is KEY_NOT_AVAILABLE; a DEC_ECB of the output of an
\* ENC_ECB under the same key returns the first sz - (sz mod 16) bytes of
\* the ENC_ECB's input.
C21_AesLengths ==
    [][/\ (DispatchesAny /\ packet'.action \in AesActions /\ packet'.handled)
            => LET r == packet'.req
                   n == r.sz - (r.sz % 16)
               IN  /\ ~StoredObj(nvm, cache, r.keyId).present
                        => packet'.rc = "KEY_NOT_AVAILABLE"
                   /\ (/\ StoredObj(nvm, cache, r.keyId).present
                       /\ packet'.fault = "none")
                        => /\ packet'.rc = "NO_ERROR"
                           /\ packet'.size = "full"
                           /\ packet'.res.sz = n
                           /\ Len(packet'.res.out) * 16 = n
       /\ DecryptsKept
            => /\ packet'.rc = "NO_ERROR"
               /\ packet'.res.sz = wire.req.sz - (wire.req.sz % 16)
               /\ packet'.res.out = wire.req.in]_vars

\* a DEC_ECB gave back the two whole blocks of a 47-byte ENC_ECB request
C21_Witness ==
    /\ packet.action = "DEC_ECB"
    /\ packet.rc = "NO_ERROR"
    /\ wire # NoRes
    /\ wire.action = "ENC_ECB"
    /\ wire.req.sz = 47
    /\ packet.req.in = wire.res.out
    /\ packet.res.sz = 32
    /\ packet.res.out = <<Key(1), Key(2)>>


\* this step is a VERIFY_MAC that reaches its handler with the key stored
\* and no wolfCrypt or key-store call failing for another reason
Verifies ==
    /\ Dispatches("VERIFY_MAC")
    /\ packet'.handled
    /\ packet'.fault = "none"
    /\ StoredObj(nvm, cache, packet'.req.keyId).present

\* the request presents the MAC and the message of a GEN_MAC the host kept
PresentsKept ==
    /\ wire # NoRes
    /\ wire.action = "GEN_MAC"
    /\ packet'.req.keyId = wire.req.keyId
    /\ packet'.req.mac = wire.res.mac
    /\ packet'.req.msg = wire.req.msg

\* the MAC presented is the CMAC of the message presented under the key
MacMatches(req) ==
    req.mac = Cmac("cmac_msg", StoredObj(nvm, cache, req.keyId).key, req.msg)

\* C22: a VERIFY_MAC of the message and the MAC of an earlier GEN_MAC under
\* the same key is answered with status 0; a VERIFY_MAC whose message or MAC
\* differs from a generated pair is answered with a full-size verify
\* response whose status field is 1.
C22_MacRoundTrip ==
    [][Verifies =>
         /\ PresentsKept
              => /\ packet'.rc = "NO_ERROR"
                 /\ packet'.size = "full"
                 /\ packet'.res = [t |-> "verify", status |-> 0]
         /\ ~MacMatches(packet'.req)
              => /\ packet'.size = "full"
                 /\ packet'.res = [t |-> "verify", status |-> 1]]_vars


BootKeyObj == StoredObj(nvm, cache, WOLFHSM_SHE_BOOT_MAC_KEY_ID)

\* this step takes sb_state from one value to another
SbMoves(from, to) == she.sbState = from /\ she'.sbState = to

\* C23: every change of sb_state by one dispatch is INIT to UPDATE (SB_INIT
\* with the boot key), INIT to SUCCESS (SB_INIT without the boot key),
\* UPDATE to FINISH (SB_UPDATE completing the image), FINISH to SUCCESS or
\* FINISH to FAILURE (SB_FINISH), or a reset to INIT after a secure-boot
\* error; no stage is skipped and no other command changes sb_state.
C23_SbTransitions ==
    [][she'.sbState # she.sbState
          => \/ /\ Dispatches("SECURE_BOOT_INIT")
                /\ SbMoves("SB_INIT", "SB_UPDATE")
                /\ BootKeyObj.present
             \/ /\ Dispatches("SECURE_BOOT_INIT")
                /\ SbMoves("SB_INIT", "SB_SUCCESS")
                /\ ~BootKeyObj.present
             \/ /\ Dispatches("SECURE_BOOT_UPDATE")
                /\ SbMoves("SB_UPDATE", "SB_FINISH")
                /\ she'.blSizeReceived = she'.blSize
             \/ /\ Dispatches("SECURE_BOOT_FINISH")
                /\ \/ SbMoves("SB_FINISH", "SB_SUCCESS")
                   \/ SbMoves("SB_FINISH", "SB_FAILURE")
             \/ /\ DispatchesAny
                /\ packet'.action \in SbActions
                /\ packet'.rc \notin {"NO_ERROR", "NO_SECURE_BOOT"}
                /\ she'.sbState = "SB_INIT"]_vars

\* the streamed message is the size field of bl_size followed by exactly
\* bl_size image bytes
MeasuresWholeImage ==
    /\ sheCmac.msg.size = StoreWord(she.blSize, littleEndian)
    /\ sheCmac.msg.image # OutOfBuffer
    /\ Word(Len(sheCmac.msg.image)) = she.blSize

\* C24: with BOOT_MAC_KEY in the key store at SB_INIT, whatever the read of
\* it returns, sb_state becomes SUCCESS only by an SB_FINISH whose CMAC over
\* the prefix, bl_size and exactly bl_size image bytes equals the stored
\* BOOT_MAC; the NO_SECURE_BOOT shortcut is taken only when BOOT_MAC_KEY is
\* absent.
C24_NoBypass ==
    [][(she.sbState # "SB_SUCCESS" /\ she'.sbState = "SB_SUCCESS")
          => \/ /\ Dispatches("SECURE_BOOT_INIT")
                /\ packet'.rc = "NO_SECURE_BOOT"
                /\ ~BootKeyObj.present
             \/ /\ Dispatches("SECURE_BOOT_FINISH")
                /\ packet'.rc = "NO_ERROR"
                /\ BootKeyObj.present
                /\ sheCmac.key = BootKeyObj.key
                /\ MeasuresWholeImage
                /\ BootMacObj.present
                /\ SameBytes(SbDigest, BootMacObj.key)]_vars


\* the slot holds an object whose stored flags contain WRITE_PROTECT
Protected(slot) ==
    /\ StoredObj(nvm, cache, slot).present
    /\ HasFlag(StoredObj(nvm, cache, slot).flags, WOLFHSM_SHE_FLAG_WRITE_PROTECT)

\* this step leaves the slot's key bytes, flags and counter as they were
SlotKept(slot) == StoredObj(nvm', cache', slot) = StoredObj(nvm, cache, slot)

\* C25: write protection is permanent: once the stored flags of a slot (any
\* of the 16, PRNG_SEED and RAM_KEY included) contain WRITE_PROTECT, no
\* command changes that slot's key bytes, flags or counter.
C25_WriteProtectPermanent ==
    [][DispatchesAny
          => \A slot \in Slots : Protected(slot) => SlotKept(slot)]_vars


\* the M2 counter the slot holds after this step
StoredCounterAfter(slot) ==
    StoredCounter(StoredObj(nvm', cache', slot), littleEndian)

\* the M2 counter the slot holds before this step
StoredCounterBefore(slot) ==
    StoredCounter(StoredObj(nvm, cache, slot), littleEndian)

\* C26: the stored counter of every slot is monotone: no command takes the
\* counter of a slot down or removes the slot, and every LOAD_KEY accepted
\* for an existing slot leaves a strictly greater counter, so that a
\* LOAD_KEY message accepted once is rejected when replayed to the slot.
C26_CounterMonotone ==
    [][DispatchesAny
          => \A slot \in Slots :
                StoredObj(nvm, cache, slot).present
                  => /\ StoredObj(nvm', cache', slot).present
                     /\ StoredCounterAfter(slot) >= StoredCounterBefore(slot)
                     /\ (packet'.action = "LOAD_KEY"
                           /\ packet'.rc = "NO_ERROR"
                           /\ packet'.req.m1.id = slot)
                          => StoredCounterAfter(slot) > StoredCounterBefore(slot)]_vars


\* the first four bytes of M4 in the clear for a 28-bit counter: the counter
\* in the top 28 bits, big-endian, followed by the padding bit
M4CounterBytes(c) ==
    LET b == BytesOf(Shl4(c)) IN <<b[1], b[2], b[3], b[4] + 8>>

\* this step is a LOAD_KEY that authenticates, with no call failing, for the
\* session UID, to a slot that is not write-protected
UpdatesKey ==
    /\ Dispatches("LOAD_KEY")
    /\ packet'.handled
    /\ packet'.fault = "none"
    /\ Authentic(packet'.req)
    /\ ~ProtectedTarget(packet'.req)
    /\ packet'.req.m1.uid = she.uid

\* C27: counter handling is byte-exact on every host byte order: with the
\* counter read as the big-endian integer in the top 28 bits of the first
\* four bytes of decrypted M2, the counter check of LOAD_KEY on an existing
\* slot passes exactly when the presented integer is greater than the stored
\* one, and after a successful LOAD_KEY the stored counter and the counter
\* echoed in M4 are that integer.
C27_CounterByteExact ==
    [][UpdatesKey
          => LET c == M2Counter(M2Of(packet'.req))
                 id == packet'.req.m1.id
             IN  /\ TargetObj(packet'.req).present
                      => (packet'.rc = "NO_ERROR"
                             <=> Gt32(c, TargetObj(packet'.req).count))
                 /\ packet'.rc = "NO_ERROR"
                      => /\ StoredObj(nvm', cache', id).count = c
                         /\ packet'.res.m4.enc.p.w = M4CounterBytes(c)]_vars


\* the commands that use the CMAC context for a one-shot CMAC
OneShotCmacActions == {"LOAD_KEY", "EXPORT_RAM_KEY", "GEN_MAC", "VERIFY_MAC"}

\* C28: the streaming secure-boot CMAC context is live only while sb_state
\* is UPDATE or FINISH: after every reset to INIT, and in SUCCESS and
\* FAILURE, it has been released; and no LOAD_KEY, EXPORT_RAM_KEY, GEN_MAC
\* or VERIFY_MAC handler runs while it is live.
C28_CmacLiveOnlyInBoot ==
    /\ [](sheCmac.live => she.sbState \in {"SB_UPDATE", "SB_FINISH"})
    /\ [][(DispatchesAny /\ packet'.action \in OneShotCmacActions
             /\ packet'.handled)
            => ~sheCmac.live]_vars


PrngActions == {"INIT_RND", "RND", "EXTEND_SEED"}

\* C29: the PRNG handlers are stateless across failures: every INIT_RND, RND
\* or EXTEND_SEED answered with an error, whichever step failed, leaves
\* prngState, prngKey, rndInited and the stored PRNG_SEED as they were.
C29_PrngFailuresKeepState ==
    [][(DispatchesAny /\ packet'.action \in PrngActions
          /\ packet'.rc # "NO_ERROR")
          => (PrngKept /\ she'.rndInited = she.rndInited)]_vars


\* the RAM slot holds a key written by LOAD_KEY: LOAD_PLAIN_KEY caches its
\* key with counter 0, a LOAD_KEY with the counter of M2, which is not 0
LoadedByLoadKey == cache.present /\ cache.count # Zero32

C31_SbStateShape ==
    /\ she.sbState = "SB_INIT"
         => /\ she.blSize = Zero32
            /\ she.blSizeReceived = Zero32
            /\ ~she.cmacKeyFound
    /\ she.sbState = "SB_UPDATE"
         => /\ she.cmacKeyFound
            /\ Le32(she.blSizeReceived, she.blSize)
    /\ she.sbState = "SB_FINISH"
         => /\ she.cmacKeyFound
            /\ she.blSizeReceived = she.blSize
    /\ she.sbState # "SB_FAILURE"
    /\ (packet.action = "GET_STATUS" /\ packet.rc = "NO_ERROR"
          /\ HasFlag(packet.res.sreg, WOLFHSM_SHE_SREG_BOOT_FINISHED))
         => HasFlag(packet.res.sreg, WOLFHSM_SHE_SREG_BOOT_OK)

\* an SB_FINISH whose CMAC did not match was answered GENERAL_ERROR and the
\* session is back in INIT with the sizes cleared
C31_Witness ==
    /\ packet.action = "SECURE_BOOT_FINISH"
    /\ packet.fault = "none"
    /\ packet.rc = "GENERAL_ERROR"
    /\ BootMacObj.present
    /\ she.sbState = "SB_INIT"
    /\ she.blSize = Zero32
    /\ ~she.cmacKeyFound


\* C32: the AES context is scoped to one handler invocation: on success and
\* on every error path a handler releases the session AES object only after
\* initialising it in that same invocation, and no AES object is left
\* initialised when the dispatch returns.
C32_AesScoped ==
    /\ [](~sheAes.inited)
    /\ [][(DispatchesAny /\ packet'.handled) => packet'.aes # "idle"]_vars


\* C33: SB_FINISH is accepted only after an SB_UPDATE was accepted since the
\* SB_INIT that opened the measurement, also for bl_size 0: an accepted
\* SB_INIT leaves sb_state UPDATE whatever the size, an SB_FINISH handled in
\* UPDATE is answered SEQUENCE_ERROR and resets the FSM, sb_state becomes
\* FINISH only by an SB_UPDATE answered NO_ERROR in UPDATE (of length 0 when
\* bl_size is 0), and SB_FINISH is answered NO_ERROR only in FINISH.
C33_FinishNeedsUpdate ==
    [][/\ (Dispatches("SECURE_BOOT_INIT") /\ packet'.rc = "NO_ERROR")
            => she'.sbState = "SB_UPDATE"
       /\ (Dispatches("SECURE_BOOT_FINISH") /\ packet'.handled
             /\ she.sbState = "SB_UPDATE")
            => (packet'.rc = "SEQUENCE_ERROR" /\ SbCleared)
       /\ (she.sbState # "SB_FINISH" /\ she'.sbState = "SB_FINISH")
            => /\ Dispatches("SECURE_BOOT_UPDATE")
               /\ packet'.rc = "NO_ERROR"
               /\ she.sbState = "SB_UPDATE"
               /\ she.blSize = Zero32 => packet'.req.sz = Zero32
       /\ (Dispatches("SECURE_BOOT_FINISH") /\ packet'.rc = "NO_ERROR")
            => she.sbState = "SB_FINISH"]_vars

\* a zero-length SB_UPDATE after SB_INIT(0) has moved the FSM to FINISH
C33_Witness ==
    /\ packet.action = "SECURE_BOOT_UPDATE"
    /\ packet.rc = "NO_ERROR"
    /\ packet.req.sz = Zero32
    /\ she.blSize = Zero32
    /\ she.cmacKeyFound
    /\ she.sbState = "SB_FINISH"

============================================================================
